---- MODULE Spec2Model ----
(***************************************************************************)
(* Push-to-talk capture -> chunking -> streaming-inference ->              *)
(* reconciliation pipeline of ez-flow (src-tauri).                         *)
(*                                                                         *)
(*   SpecRing    ChunkedAudioBuffer alone (services/audio/chunking.rs)     *)
(*   SpecEngine  SharedWhisperEngine and its callers                       *)
(*               (services/transcription/engine.rs)                        *)
(*   Spec        hotkey handler, capture thread, chunk-poll loops,         *)
(*               completion tasks and the streaming service                *)
(*               (services/hotkey/mod.rs, commands/audio.rs,               *)
(*                services/audio/capture.rs, services/streaming/mod.rs)    *)
(*                                                                         *)
(* Audio samples are natural numbers: the position of the sample in the    *)
(* stream of its recording, so that buffers can be compared by content.    *)
(* A resampled sample is the tuple of the input samples it was formed of.  *)
(***************************************************************************)
EXTENDS Integers, Sequences, FiniteSets, TLC

VARIABLES
    \* ---- ChunkedAudioBuffer (chunking.rs:109-128) ----
    ring,            \* [chunks, full_buffer, pending_samples, chunk_counter, start_time_ms]
    input_ratio,     \* input_sample_rate / WHISPER_SAMPLE_RATE of the ring
    produced,        \* history: chunks formed since the last reset, in production order
    fed,             \* history: input samples handed to add_samples since reset (SpecRing),
                     \* samples delivered by the audio callbacks (Spec)
    \* ---- SharedWhisperEngine (engine.rs:29-36, 479-481) ----
    engine,          \* WhisperEngine: [ctx, model_id, using_gpu]
    engine_lock,     \* the tokio Mutex around it: [holder, queue]
    model_files,     \* model ids whose ggml file exists on disk
    gpu_backend,     \* detect_gpu_backend().is_gpu()
    callers,         \* the tasks calling the component a specification is about:
                     \* SpecEngine: the engine, [pc, op, model, len, result];
                     \* SpecStream: the streaming service, [pc, chunk, text, full_len, mode]
    \* ---- hotkey handler (hotkey/mod.rs:44-52, 110-243) ----
    now,                   \* current_time_ms()
    key_down,              \* the physical key: Pressed and Released events alternate
    hk,                    \* the handler thread: [pc, session, buffer_len]
    is_hotkey_recording,   \* HotkeyState.is_hotkey_recording
    recording_start_time,  \* HotkeyState.recording_start_time
    is_streaming_active,   \* HotkeyState.is_streaming_active
    settings,              \* [streaming_enabled, streaming_mode, model_id]
    \* ---- capture thread (commands/audio.rs:112-233, capture.rs) ----
    capture,               \* [created, is_recording, streaming_enabled, buffer_len, ring_session]
    \* ---- StreamingTranscriptionService (streaming/mod.rs:67-82) ----
    streaming,             \* [accumulated_text, last_chunk_index, is_active, last_context,
                           \*  last_emit_time, chunks_processed, mode]
    \* ---- spawned tasks: service.start, chunk-poll loop, completion ----
    tasks,                 \* task id -> [pc, batch, result, full_len, text, wake_at, mode]
    \* ---- history ----
    sess,                  \* per session: [streaming, started, released, tap, finals,
                           \*  partials, failed, reported, reconcile_err]
    submitted,             \* per session: chunk indices in the order process_chunk was called
    last_completion_ms,    \* <<t>>: the last session completed at t
    press_gap,             \* <<d>>: the last accepted press came d ms after a completion
    \* ---- SpecStream: the app handle the service emits to ----
    emitted,               \* history: the events emitted, [event, at, text, reconciled]
    \* ---- AudioState (commands/audio.rs:61-72) ----
    audio_state,           \* [initialized, cmd_tx, resp_rx, cmd_chan, resp_chan, worker, spawned]
    \* ---- SpecUnits: one call of a function ----
    unit                   \* [fn, args, out]: the function, its arguments, <<>> or <<result>>

ringVars == <<ring, input_ratio, produced, fed>>

engineVars == <<engine, engine_lock, model_files, gpu_backend>>

hotkeyVars == <<now, key_down, hk, is_hotkey_recording, recording_start_time,
                is_streaming_active, settings>>

historyVars == <<sess, submitted, last_completion_ms, press_gap>>

sysVars == <<hotkeyVars, capture, streaming, tasks, historyVars>>

\* the variables only the single-component specifications change
unitVars == <<emitted, audio_state, unit>>

vars == <<ring, input_ratio, produced, fed,
          engine, engine_lock, model_files, gpu_backend, callers,
          now, key_down, hk, is_hotkey_recording, recording_start_time,
          is_streaming_active, settings, capture, streaming, tasks,
          sess, submitted, last_completion_ms, press_gap, emitted, audio_state, unit>>

None == "None"

\* no task (lock holders and waiters are task ids, which are tuples)
NoTask == <<>>

(***************************************************************************)
(* Bounds of the model                                                     *)
(***************************************************************************)
\* config.chunk_size_samples, in 16 kHz samples (32000 by default, scaled down)
ChunkSizeSamples == 2
\* config.max_queue_size (30 by default, scaled down)
MaxQueueSize == 2
\* input samples fed to one ring between two resets
MaxSamples == 11
\* largest block one add_samples call receives
MaxBlock == 5
\* largest input_sample_rate / 16000 ratio tried (1 = no resampler)
MaxRatio == 2
\* tasks calling the inference methods of the engine in SpecEngine
NumCallers == 2

\* reconcile: the tail Balanced mode transcribes again (5 * 16000 samples, scaled
\* with ChunkSizeSamples)
last_5_secs_samples == 3
\* hotkey sessions (accepted presses) in one run of Spec
MaxSessions == 2
\* samples the audio callbacks deliver in one run of Spec
MaxRecSamples == 5
\* clock ticks of poll_interval ms in one run of Spec
MaxTicks == 2

\* SpecStream: the highest chunk index handed to process_chunk in a session,
\* the events emitted
MaxChunkIndex == 2

MaxEvents == 4

WHISPER_SAMPLE_RATE == 16000

\* hotkey/mod.rs
MIN_RECORDING_DURATION_MS == 200

\* process_streaming_chunks: Duration::from_millis(100)
poll_interval == 100

\* commands/workflow.rs
COOLDOWN_MS == 500

\* streaming/mod.rs
MIN_EMIT_INTERVAL_MS == 333

\* wall-clock values reset() may capture as start_time_ms
StartTimes == {0, 1000}

(***************************************************************************)
(* Helpers                                                                 *)
(***************************************************************************)
Min(a, b) == IF a < b THEN a ELSE b

Max(a, b) == IF a > b THEN a ELSE b

CeilDiv(a, b) == (a + b - 1) \div b

RECURSIVE SumLen(_)
SumLen(cs) == IF cs = <<>> THEN 0 ELSE Len(Head(cs).samples) + SumLen(Tail(cs))

RECURSIVE ConcatSamples(_)
ConcatSamples(cs) == IF cs = <<>> THEN <<>> ELSE Head(cs).samples \o ConcatSamples(Tail(cs))

\* the samples numbered from+1 .. from+n
Block(from, n) == [i \in 1..n |-> from + i]

(***************************************************************************)
(* ChunkedAudioBuffer                                                      *)
(***************************************************************************)
AudioChunk(samples, chunk_index, timestamp_ms, has_overlap) ==
    [samples |-> samples, chunk_index |-> chunk_index,
     timestamp_ms |-> timestamp_ms, has_overlap |-> has_overlap]

\* ChunkedAudioBuffer::new: chunk size at the input rate
input_chunk_size(ratio) == ChunkSizeSamples * ratio

\* the resampling block of create_chunk / flush_remaining: no resampler when the
\* input is at 16 kHz; otherwise ceil(len * 16000 / input_rate) output samples,
\* each formed of the input samples of its window (the last window is padded)
Resample(xs, ratio) ==
    IF ratio = 1 THEN xs
    ELSE [k \in 1..CeilDiv(Len(xs), ratio) |->
             SubSeq(xs, (k - 1) * ratio + 1, Min(k * ratio, Len(xs)))]

\* f32 values are pairs [m, e] standing for m * 2^e, with m below 2^24 (the 24
\* bits of an f32 significand); the operations round to nearest, ties to even
F32Bits == 24

\* n / d rounded to the nearest integer, ties to even
RoundDiv(n, d) ==
    LET q == n \div d
        r == n % d
    IN IF 2 * r > d \/ (2 * r = d /\ q % 2 = 1) THEN q + 1 ELSE q

\* the number of low bits n (below 2^31) has to give up to fit the significand
RECURSIVE ExcessBits(_)
ExcessBits(n) == IF n < 2^F32Bits THEN 0 ELSE 1 + ExcessBits(n \div 2)

\* the number of bits n (positive) can be moved up by and stay below limit
RECURSIVE Headroom(_, _)
Headroom(n, limit) ==
    IF n >= (limit + 1) \div 2 THEN 0 ELSE 1 + Headroom(2 * n, limit)

\* the f32 nearest to n * 2^e
F32(n, e) ==
    LET k == ExcessBits(n)
    IN [m |-> RoundDiv(n, 2^k), e |-> e + k]

\* the odd part of a positive integer, and the power of two it is multiplied by
RECURSIVE OddPart(_)
OddPart(n) == IF n % 2 = 0 THEN OddPart(n \div 2) ELSE n

RECURSIVE TwoPart(_)
TwoPart(n) == IF n % 2 = 0 THEN 1 + TwoPart(n \div 2) ELSE 0

\* (a * b) as f32, for usize a and b (the product itself may pass 2^31)
F32OfProduct(a, b) ==
    IF a = 0 \/ b = 0 THEN [m |-> 0, e |-> 0]
    ELSE F32(OddPart(a) * OddPart(b), TwoPart(a) + TwoPart(b))

\* x / 16000.0 in f32: 16000 = 125 * 2^7
F32Div16000(x) ==
    IF x.m = 0 THEN x
    ELSE LET j == Headroom(x.m, 125 * 2^F32Bits)
         IN F32(RoundDiv(x.m * 2^j, 125), x.e - 7 - j)

\* x * 1000.0 in f32: 1000 = 125 * 2^3
F32Mul1000(x) == F32(x.m * 125, x.e + 3)

\* x as u64: the fraction is cut off
F32AsU64(x) == IF x.e >= 0 THEN x.m * 2^x.e ELSE x.m \div 2^(0 - x.e)

\* calculate_timestamp: (total_samples_before as f32 / 16000.0 * 1000.0) as u64
calculate_timestamp(start_time_ms, chunk_size_samples, chunk_index) ==
    start_time_ms
      + F32AsU64(F32Mul1000(F32Div16000(F32OfProduct(chunk_index, chunk_size_samples))))

EmptyRing(t) ==
    [chunks |-> <<>>, full_buffer |-> <<>>, pending_samples |-> <<>>,
     chunk_counter |-> 0, start_time_ms |-> t]

\* reset(): t is the wall clock read by the call
reset(r, t) == EmptyRing(t)

\* chunk_counter.fetch_add(1): the value the counter takes
FetchAddStuck(c) == c

fetch_add(c) == c + 1

\* the chunk create_chunk forms from the head of pending_samples
NewChunk(r, ratio) ==
    AudioChunk(Resample(SubSeq(r.pending_samples, 1, input_chunk_size(ratio)), ratio),
               r.chunk_counter,
               calculate_timestamp(r.start_time_ms, ChunkSizeSamples, r.chunk_counter),
               r.chunk_counter > 0)

\* mutant of create_chunk: the overlap context is appended to the full buffer too
create_chunk_overlap(r, ratio) ==
    IF Len(r.pending_samples) < input_chunk_size(ratio) THEN r
    ELSE LET chunk == NewChunk(r, ratio)
             kept  == IF Len(r.chunks) >= MaxQueueSize THEN Tail(r.chunks) ELSE r.chunks
         IN [r EXCEPT !.chunk_counter = fetch_add(@),
                      !.pending_samples = SubSeq(@, input_chunk_size(ratio) + 1, Len(@)),
                      !.full_buffer = @ \o (IF chunk.has_overlap THEN <<Head(chunk.samples)>> ELSE <<>>)
                                        \o chunk.samples,
                      !.chunks = Append(kept, chunk)]

\* mutant of create_chunk: a full queue gives up its newest chunk, not its oldest
create_chunk_pop_back(r, ratio) ==
    IF Len(r.pending_samples) < input_chunk_size(ratio) THEN r
    ELSE LET chunk == NewChunk(r, ratio)
             kept  == IF Len(r.chunks) >= MaxQueueSize
                      THEN SubSeq(r.chunks, 1, Len(r.chunks) - 1) ELSE r.chunks
         IN [r EXCEPT !.chunk_counter = fetch_add(@),
                      !.pending_samples = SubSeq(@, input_chunk_size(ratio) + 1, Len(@)),
                      !.full_buffer = @ \o chunk.samples,
                      !.chunks = Append(kept, chunk)]

create_chunk(r, ratio) ==
    IF Len(r.pending_samples) < input_chunk_size(ratio) THEN r
    ELSE LET chunk == NewChunk(r, ratio)
             kept  == IF Len(r.chunks) >= MaxQueueSize THEN Tail(r.chunks) ELSE r.chunks
         IN [r EXCEPT !.chunk_counter = fetch_add(@),
                      !.pending_samples = SubSeq(@, input_chunk_size(ratio) + 1, Len(@)),
                      !.full_buffer = @ \o chunk.samples,
                      !.chunks = Append(kept, chunk)]

\* the while loop of add_samples
RECURSIVE CreateChunks(_, _)
CreateChunks(r, ratio) ==
    IF Len(r.pending_samples) >= input_chunk_size(ratio)
    THEN CreateChunks(create_chunk(r, ratio), ratio)
    ELSE r

\* mutant of add_samples: an if in place of the while
add_samples_once(r, xs, ratio) ==
    create_chunk([r EXCEPT !.pending_samples = @ \o xs], ratio)

add_samples(r, xs, ratio) ==
    CreateChunks([r EXCEPT !.pending_samples = @ \o xs], ratio)

\* history: the chunks the loop of add_samples forms, in order
RECURSIVE ChunksFormed(_, _)
ChunksFormed(r, ratio) ==
    IF Len(r.pending_samples) >= input_chunk_size(ratio)
    THEN <<NewChunk(r, ratio)>> \o ChunksFormed(create_chunk(r, ratio), ratio)
    ELSE <<>>

\* get_pending_chunks: drains the ready queue
get_pending_chunks(r) == [r EXCEPT !.chunks = <<>>]

\* take_next_chunk: pops the head of the ready queue
take_next_chunk(r) == [r EXCEPT !.chunks = IF @ = <<>> THEN <<>> ELSE Tail(@)]

\* the Option<AudioChunk> flush_remaining returns: <<>> is None, <<c>> is Some(c)
FlushedChunk(r, ratio) ==
    IF r.pending_samples = <<>> THEN <<>>
    ELSE <<AudioChunk(Resample(r.pending_samples, ratio),
                      r.chunk_counter,
                      calculate_timestamp(r.start_time_ms, ChunkSizeSamples, r.chunk_counter),
                      r.chunk_counter > 0)>>

\* mutant of flush_remaining: the final chunk is put in the ready queue as well
flush_remaining_enqueue(r, ratio) ==
    IF r.pending_samples = <<>> THEN r
    ELSE [r EXCEPT !.chunk_counter = fetch_add(@),
                   !.pending_samples = <<>>,
                   !.full_buffer = @ \o FlushedChunk(r, ratio)[1].samples,
                   !.chunks = Append(@, FlushedChunk(r, ratio)[1])]

flush_remaining(r, ratio) ==
    IF r.pending_samples = <<>> THEN r
    ELSE [r EXCEPT !.chunk_counter = fetch_add(@),
                   !.pending_samples = <<>>,
                   !.full_buffer = @ \o FlushedChunk(r, ratio)[1].samples]

(***************************************************************************)
(* The push-to-talk system: state at rest                                  *)
(***************************************************************************)
Sessions == 1..MaxSessions

StreamingModes == {"Speed", "Balanced", "Accuracy"}

\* the tasks the hotkey handler spawns for session s
StartTask(s) == <<"start", s>>

PollTask(s) == <<"poll", s>>

CompletionTask(s) == <<"completion", s>>

TaskIds == {StartTask(s) : s \in Sessions} \cup {PollTask(s) : s \in Sessions}
               \cup {CompletionTask(s) : s \in Sessions}

\* a task that was not spawned
NoTaskState ==
    [pc |-> "none", batch |-> <<>>, result |-> <<>>, full_len |-> 0, text |-> <<>>,
     wake_at |-> 0, mode |-> None]

\* StreamingTranscriptionService::new; t is Instant::now()
NewStreamingService(t) ==
    [accumulated_text |-> <<>>, last_chunk_index |-> 0, is_active |-> FALSE,
     last_context |-> <<>>, last_emit_time |-> t - 1000, chunks_processed |-> 0,
     mode |-> "Balanced"]

\* the audio thread before its first command: service = None
NoCapture ==
    [created |-> FALSE, is_recording |-> FALSE, streaming_enabled |-> FALSE,
     buffer_len |-> 0, ring_session |-> 0]

\* history of a session: what the handler did, the final events, the partial
\* events in emission order, the chunks whose engine call failed and those an
\* error event was emitted for, and whether reconcile returned Err
NoSession ==
    [streaming |-> FALSE, started |-> FALSE, released |-> FALSE, tap |-> FALSE, finals |-> 0,
     partials |-> <<>>, failed |-> {}, reported |-> {}, reconcile_err |-> FALSE]

\* AudioState::default: no capture thread yet, no channel
\* a std Mutex no thread holds
Unlocked == "none"

\* AudioState::default(): no thread; cmd_tx and resp_rx are the holders of the two
\* std Mutexes, cmd_chan and resp_chan the contents of the two mpsc channels,
\* spawned the number of capture threads spawned so far
NewAudioState ==
    [initialized |-> FALSE, cmd_tx |-> Unlocked, resp_rx |-> Unlocked,
     cmd_chan |-> <<>>, resp_chan |-> <<>>, worker |-> "none", spawned |-> 0]

\* no function call
NoUnit == [fn |-> "none", args |-> <<>>, out |-> <<>>]

\* nothing emitted, AudioState as constructed, no function called
UnitsIdle ==
    /\ emitted = <<>>
    /\ audio_state = NewAudioState
    /\ unit = NoUnit

\* HotkeyState::new, AudioState::default, SharedStreamingService::new and empty histories
SystemIdle ==
    /\ now = 0
    /\ key_down = FALSE
    /\ hk = [pc |-> "idle", session |-> 0, buffer_len |-> 0]
    /\ is_hotkey_recording = FALSE
    /\ recording_start_time = 0
    /\ is_streaming_active = FALSE
    /\ settings = [streaming_enabled |-> TRUE, streaming_mode |-> "Balanced", model_id |-> "base"]
    /\ capture = NoCapture
    /\ streaming = NewStreamingService(0)
    /\ tasks = [t \in TaskIds |-> NoTaskState]
    /\ sess = [s \in Sessions |-> NoSession]
    /\ submitted = [s \in Sessions |-> <<>>]
    /\ last_completion_ms = <<>>
    /\ press_gap = <<>>

(***************************************************************************)
(* WhisperEngine and SharedWhisperEngine                                   *)
(***************************************************************************)
ModelIds == {"base", "small"}

\* path.file_stem() of get_model_path(m) = models_dir/ggml-<m>.bin
FileStem(m) == IF m = "base" THEN "ggml-base" ELSE "ggml-small"

\* WhisperEngine::new
NewEngine == [ctx |-> None, model_id |-> "", using_gpu |-> FALSE]

is_loaded(e) == e.ctx # None

\* a load that drops the resident model before it calls the native loader
load_model_with_gpu_unloading(e, m, use_gpu, files, native) ==
    IF m \notin files THEN [engine |-> e, result |-> "NotFound"]
    ELSE IF native = "invalid_path" THEN [engine |-> e, result |-> "InvalidPath"]
    ELSE IF native \in {"ok", "gpu_fails"}
    THEN [engine |-> [ctx |-> m, model_id |-> FileStem(m),
                      using_gpu |-> use_gpu /\ native = "ok"],
          result |-> "Ok"]
    ELSE [engine |-> [ctx |-> None, model_id |-> "", using_gpu |-> FALSE],
          result |-> "LoadFailed"]

\* load_model_with_gpu(path, use_gpu) for the file of model m. native is what
\* follows the exists() test: "invalid_path" (path.to_str() is None), or what
\* WhisperContext::new_with_params does: "ok", "gpu_fails" (fails with the GPU
\* requested, succeeds on the CPU retry) or "fails".
load_model_with_gpu(e, m, use_gpu, files, native) ==
    IF m \notin files THEN [engine |-> e, result |-> "NotFound"]
    ELSE IF native = "invalid_path" THEN [engine |-> e, result |-> "InvalidPath"]
    ELSE IF native = "ok" \/ (native = "gpu_fails" /\ ~use_gpu)
    THEN [engine |-> [ctx |-> m, model_id |-> FileStem(m), using_gpu |-> use_gpu],
          result |-> "Ok"]
    ELSE IF use_gpu
    THEN IF native = "gpu_fails"
         THEN [engine |-> [ctx |-> m, model_id |-> FileStem(m), using_gpu |-> FALSE],
               result |-> "Ok"]
         ELSE [engine |-> e, result |-> "LoadFailed"]
    ELSE [engine |-> e, result |-> "LoadFailed"]

load_model(e, m, gpu, files, native) == load_model_with_gpu(e, m, gpu, files, native)

unload_model(e) == [ctx |-> None, model_id |-> "", using_gpu |-> FALSE]

\* the minimum chunk length transcribe_chunk runs inference on (8000 samples =
\* a quarter of the default chunk; scaled with ChunkSizeSamples)
MIN_SAMPLES == 2

\* what transcribe_with_prompt decides before it runs inference
transcribe_with_prompt_pre(e, len) ==
    IF ~is_loaded(e) THEN "ModelNotLoaded"
    ELSE IF len = 0 THEN "InvalidAudioFile"
    ELSE "run"

\* mutant of transcribe_chunk_pre: the length is tested before the model
transcribe_chunk_pre_len_first(e, len) ==
    IF len < MIN_SAMPLES THEN "OkEmpty"
    ELSE IF ~is_loaded(e) THEN "ModelNotLoaded"
    ELSE "run"

\* what transcribe_chunk decides before it runs inference
transcribe_chunk_pre(e, len) ==
    IF ~is_loaded(e) THEN "ModelNotLoaded"
    ELSE IF len = 0 THEN "OkEmpty"
    ELSE IF len < MIN_SAMPLES THEN "OkEmpty"
    ELSE "run"

\* tokio::sync::Mutex (fair: FIFO waiters). lock().await by task t:
\* mutant: the lock is granted although it is held
MutexLockUnguarded(l, t) == [l EXCEPT !.holder = t]

MutexLock(l, t) ==
    IF l.holder = NoTask /\ l.queue = <<>> THEN [l EXCEPT !.holder = t]
    ELSE [l EXCEPT !.queue = Append(@, t)]

\* drop of the guard: the lock passes to the first waiter
MutexUnlock(l) ==
    IF l.queue = <<>> THEN [l EXCEPT !.holder = NoTask]
    ELSE [holder |-> Head(l.queue), queue |-> Tail(l.queue)]

EngineIdle ==
    /\ engine = NewEngine
    /\ engine_lock = [holder |-> NoTask, queue |-> <<>>]
    /\ model_files = {}
    /\ gpu_backend = FALSE

(***************************************************************************)
(* SpecEngine: NumCallers tasks calling one SharedWhisperEngine            *)
(***************************************************************************)
\* the tasks running inference methods, and the task running the model commands
\* (commands/transcription.rs: load_whisper_model, unload_whisper_model)
InferenceCallers == {<<"caller", i>> : i \in 1..NumCallers}

CommandTask == <<"command">>

Callers == InferenceCallers \cup {CommandTask}

\* audio lengths handed to the engine: empty, too short for a chunk, long enough
AudioLens == {0, MIN_SAMPLES - 1, MIN_SAMPLES}

AutoLoadOps == {"transcribe_with_auto_load_and_prompt", "transcribe_chunk_with_auto_load"}

ChunkOps == {"transcribe_chunk", "transcribe_chunk_with_auto_load"}

InferenceOps == {"transcribe_with_prompt", "transcribe_chunk"} \cup AutoLoadOps

EngineOps == InferenceOps \cup {"load_model", "unload_model"}

IdleCaller(res) == [pc |-> "idle", op |-> None, model |-> None, len |-> 0, result |-> res]

InitEngine ==
    /\ engine = NewEngine
    /\ engine_lock = [holder |-> NoTask, queue |-> <<>>]
    /\ model_files \in SUBSET ModelIds
    /\ gpu_backend \in BOOLEAN
    /\ callers = [c \in Callers |-> IdleCaller(None)]
    /\ UnitsIdle
    /\ input_ratio = 1
    /\ ring = EmptyRing(0)
    /\ produced = <<>>
    /\ fed = 0
    /\ SystemIdle

\* what the inference op does once it holds the lock with the engine as it is
PreOf(op, e, len) ==
    IF op \in ChunkOps THEN transcribe_chunk_pre(e, len) ELSE transcribe_with_prompt_pre(e, len)

\* a task calls an engine method: the first thing it does is inner.lock().await
EngCall(c) ==
    /\ callers[c].pc = "idle"
    /\ \E op \in EngineOps :
          /\ (op \in InferenceOps) <=> (c \in InferenceCallers)
          /\ callers' = [callers EXCEPT ![c] =
                 [pc |-> "locking", op |-> op, model |-> None, len |-> 0, result |-> None]]
    /\ engine_lock' = MutexLock(engine_lock, c)
    /\ UNCHANGED <<engine, model_files, gpu_backend, ringVars, sysVars, unitVars>>

\* the arguments an engine method can be called with (they are first read once
\* the lock is held)
ArgsOf(op) ==
    {a \in [model : ModelIds, len : AudioLens] :
        /\ (op \in {"transcribe_with_prompt", "transcribe_chunk", "unload_model"}) => a.model = "base"
        /\ (op \in {"load_model", "unload_model"}) => a.len = 0
        /\ (op \in InferenceOps \ ChunkOps) => a.len # MIN_SAMPLES - 1}

\* the lock is granted: the method runs up to its first long native call
EngLocked(c) ==
    /\ callers[c].pc = "locking"
    /\ engine_lock.holder = c
    /\ \E a \in ArgsOf(callers[c].op) :
       LET op  == callers[c].op
           m   == a.model
           run == [callers[c] EXCEPT !.model = a.model, !.len = a.len]
       IN IF op = "unload_model"
          THEN /\ callers' = [callers EXCEPT ![c] = [run EXCEPT !.pc = "unloading"]]
               /\ UNCHANGED engine_lock
          ELSE IF op = "load_model"
          THEN IF m \in model_files
               THEN /\ callers' = [callers EXCEPT ![c] = [run EXCEPT !.pc = "loading"]]
                    /\ UNCHANGED engine_lock
               ELSE /\ callers' = [callers EXCEPT ![c] = IdleCaller("NotFound")]
                    /\ engine_lock' = MutexUnlock(engine_lock)
          ELSE IF op \in AutoLoadOps /\ ~is_loaded(engine)
          THEN IF m \in model_files
               THEN /\ callers' = [callers EXCEPT ![c] = [run EXCEPT !.pc = "loading"]]
                    /\ UNCHANGED engine_lock
               ELSE /\ callers' = [callers EXCEPT ![c] = IdleCaller("ModelNotLoaded")]
                    /\ engine_lock' = MutexUnlock(engine_lock)
          ELSE IF PreOf(op, engine, a.len) = "run"
               THEN /\ callers' = [callers EXCEPT ![c] = [run EXCEPT !.pc = "inference"]]
                    /\ UNCHANGED engine_lock
               ELSE /\ callers' = [callers EXCEPT ![c] = IdleCaller(PreOf(op, engine, a.len))]
                    /\ engine_lock' = MutexUnlock(engine_lock)
    /\ UNCHANGED <<engine, model_files, gpu_backend, ringVars, sysVars, unitVars>>

\* WhisperContext::new_with_params returns (load_model, or the lazy load of an
\* auto-load method)
EngLoadDone(c) ==
    /\ callers[c].pc = "loading"
    /\ \E native \in {"ok", "gpu_fails", "fails", "invalid_path"} :
         LET op == callers[c].op
             r  == load_model(engine, callers[c].model, gpu_backend, model_files, native)
         IN /\ engine' = r.engine
            /\ IF op = "load_model"
               THEN /\ callers' = [callers EXCEPT ![c] = IdleCaller(r.result)]
                    /\ engine_lock' = MutexUnlock(engine_lock)
               ELSE IF r.result # "Ok"
               THEN /\ callers' = [callers EXCEPT ![c] = IdleCaller("ModelNotLoaded")]
                    /\ engine_lock' = MutexUnlock(engine_lock)
               ELSE IF PreOf(op, r.engine, callers[c].len) = "run"
               THEN /\ callers' = [callers EXCEPT ![c].pc = "inference"]
                    /\ UNCHANGED engine_lock
               ELSE /\ callers' = [callers EXCEPT ![c] =
                                       IdleCaller(PreOf(op, r.engine, callers[c].len))]
                    /\ engine_lock' = MutexUnlock(engine_lock)
    /\ UNCHANGED <<model_files, gpu_backend, ringVars, sysVars, unitVars>>

EngUnloadDone(c) ==
    /\ callers[c].pc = "unloading"
    /\ engine' = unload_model(engine)
    /\ callers' = [callers EXCEPT ![c] = IdleCaller("Ok")]
    /\ engine_lock' = MutexUnlock(engine_lock)
    /\ UNCHANGED <<model_files, gpu_backend, ringVars, sysVars, unitVars>>

\* state.full(..) returns: the method returns and its guard is dropped
EngInferenceDone(c) ==
    /\ callers[c].pc = "inference"
    /\ \E res \in {"Ok", "InferenceFailed"} :
          callers' = [callers EXCEPT ![c] = IdleCaller(res)]
    /\ engine_lock' = MutexUnlock(engine_lock)
    /\ UNCHANGED <<engine, model_files, gpu_backend, ringVars, sysVars, unitVars>>

NextEngine ==
    \E c \in Callers :
        \/ EngCall(c)
        \/ EngLocked(c)
        \/ EngLoadDone(c)
        \/ EngUnloadDone(c)
        \/ EngInferenceDone(c)

SpecEngine == InitEngine /\ [][NextEngine]_vars

\* C4: at most one inference call on the shared engine is in flight at any time,
\* and a model load or unload never runs while an inference (or another load or
\* unload) does, for any callers.
C4_OneInferenceInFlight ==
    Cardinality({c \in Callers : callers[c].pc \in {"inference", "loading", "unloading"}}) <= 1

\* one caller is inside the inference of a chunk while another has called an
\* inference method and waits in the queue of the lock
C4_Witness ==
    \E c, d \in Callers :
        /\ c # d
        /\ callers[c].pc = "inference"
        /\ callers[c].op = "transcribe_chunk_with_auto_load"
        /\ callers[d].pc = "locking"
        /\ callers[d].op \in InferenceOps
        /\ engine_lock.holder = c
        /\ engine_lock.queue = <<d>>

\* C18: concurrent auto-load callers load the model once. While the model
\* commands stay out, (a) a caller is inside the lazy load only with the engine
\* unloaded and the model file present, (b) a caller is inside inference only
\* with a model loaded, (c) once a model is loaded no auto-load caller loads
\* again (the engine is left as it is), and (d) an auto-load caller that finds
\* the engine unloaded and returns without loading (the file is absent) gets
\* ModelNotLoaded and leaves the engine unloaded.
C18_AutoLoadOnce ==
    /\ [](\A c \in InferenceCallers :
             /\ callers[c].pc = "loading" =>
                    /\ callers[c].op \in AutoLoadOps
                    /\ ~is_loaded(engine)
                    /\ callers[c].model \in model_files
             /\ callers[c].pc = "inference" => is_loaded(engine))
    /\ [][/\ (is_loaded(engine) /\ callers[CommandTask].pc \notin {"loading", "unloading"})
                 => engine' = engine
           /\ \A c \in InferenceCallers :
                 (/\ callers[c].pc = "locking"
                  /\ callers[c].op \in AutoLoadOps
                  /\ callers'[c].pc = "idle"
                  /\ ~is_loaded(engine))
                 => /\ callers'[c].result = "ModelNotLoaded"
                    /\ ~is_loaded(engine')]_vars

\* the model commands never ran; one auto-load caller loaded the model and is
\* inside inference, the other called while the engine was unloaded and waits
C18_Witness ==
    \E c, d \in InferenceCallers :
        /\ c # d
        /\ callers[CommandTask] = IdleCaller(None)
        /\ callers[c].pc = "inference"
        /\ callers[c].op \in AutoLoadOps
        /\ callers[d].pc = "locking"
        /\ callers[d].op \in AutoLoadOps
        /\ callers[d].result = None
        /\ is_loaded(engine)

\* C19: a model resident in the engine is replaced only after an unload: no
\* step takes the engine from one loaded state to another.
C19_LoadKeepsResidentModel ==
    [][(is_loaded(engine) /\ is_loaded(engine')) => engine' = engine]_vars

\* C40: a load_model call that returns an error (NotFound, InvalidPath, or
\* LoadFailed after the CPU retry) leaves ctx, model_id and using_gpu as they
\* were: a resident model stays, an unloaded engine stays unloaded.
C40_FailedLoadChangesNothing ==
    [][\A c \in Callers :
          (/\ callers[c].op = "load_model"
           /\ callers'[c].pc = "idle"
           /\ callers'[c].result \in {"NotFound", "InvalidPath", "LoadFailed"})
              => engine' = engine]_vars

\* the native load failed with a model resident on the GPU, which is still there
C40_Witness ==
    /\ callers[CommandTask].pc = "idle"
    /\ callers[CommandTask].result = "LoadFailed"
    /\ engine = [ctx |-> "base", model_id |-> "ggml-base", using_gpu |-> TRUE]

(***************************************************************************)
(* SpecRing: one ChunkedAudioBuffer driven by arbitrary calls              *)
(***************************************************************************)
InitRing ==
    /\ input_ratio \in 1..MaxRatio
    /\ ring \in {EmptyRing(t) : t \in StartTimes}
    /\ produced = <<>>
    /\ fed = 0
    /\ EngineIdle
    /\ callers = <<>>
    /\ UnitsIdle
    /\ SystemIdle

RingReset ==
    /\ \E t \in StartTimes : ring' = reset(ring, t)
    /\ produced' = <<>>
    /\ fed' = 0
    /\ UNCHANGED <<input_ratio, engineVars, callers, sysVars, unitVars>>

RingAddSamples ==
    \E n \in 1..MaxBlock :
        /\ fed + n <= MaxSamples
        /\ LET xs == Block(fed, n)
           IN /\ ring' = add_samples(ring, xs, input_ratio)
              /\ produced' = produced \o
                     ChunksFormed([ring EXCEPT !.pending_samples = @ \o xs], input_ratio)
        /\ fed' = fed + n
        /\ UNCHANGED <<input_ratio, engineVars, callers, sysVars, unitVars>>

RingGetPendingChunks ==
    /\ ring' = get_pending_chunks(ring)
    /\ UNCHANGED <<input_ratio, produced, fed, engineVars, callers, sysVars, unitVars>>

RingTakeNextChunk ==
    /\ ring' = take_next_chunk(ring)
    /\ UNCHANGED <<input_ratio, produced, fed, engineVars, callers, sysVars, unitVars>>

RingFlushRemaining ==
    /\ ring' = flush_remaining(ring, input_ratio)
    /\ produced' = produced \o FlushedChunk(ring, input_ratio)
    /\ UNCHANGED <<input_ratio, fed, engineVars, callers, sysVars, unitVars>>

NextRing ==
    \/ RingReset
    \/ RingAddSamples
    \/ RingGetPendingChunks
    \/ RingTakeNextChunk
    \/ RingFlushRemaining

SpecRing == InitRing /\ [][NextRing]_vars

\* the ring of a recording that is not ended yet: every call but flush_remaining
NextRingAdd ==
    \/ RingReset
    \/ RingAddSamples
    \/ RingGetPendingChunks
    \/ RingTakeNextChunk

SpecRingAdd == InitRing /\ [][NextRingAdd]_vars

(***************************************************************************)
(* Claims on the ring                                                      *)
(***************************************************************************)
\* C1: in any session (reset to reset) the chunks formed by add_samples and
\* flush_remaining carry chunk_index 0, 1, 2, ... in production order, with no
\* gap and no repeat, whatever get_pending_chunks / take_next_chunk calls are
\* interleaved.
C1_ChunkIndicesSequential ==
    /\ \A i \in 1..Len(produced) : produced[i].chunk_index = i - 1
    /\ ring.chunk_counter = Len(produced)

\* three chunks were formed, the last by flush_remaining after the queue was read
C1_Witness ==
    /\ Len(produced) >= 3
    /\ ring.pending_samples = <<>>
    /\ ring.chunks = <<>>
    /\ Len(produced[Len(produced)].samples) < ChunkSizeSamples

\* C2: the full buffer is as long as all the chunks formed in the session
\* together, chunks dropped from the ready queue included (overlap samples are
\* never appended to it); it holds after every call, so in particular at the end
\* of the session, once flush_remaining has emptied pending.
C2_FullBufferLength ==
    /\ Len(ring.full_buffer) = SumLen(produced)
    /\ ring.full_buffer = ConcatSamples(produced)

\* session end after a queue overflow: more chunks formed than the queue holds,
\* pending flushed as a short last chunk
C2_Witness ==
    /\ Len(produced) > MaxQueueSize + 1
    /\ Len(ring.chunks) = MaxQueueSize
    /\ ring.pending_samples = <<>>
    /\ Len(produced[Len(produced)].samples) < ChunkSizeSamples
    /\ Len(ring.full_buffer) = SumLen(produced)

\* the last n elements of a sequence
LastN(s, n) == SubSeq(s, Max(1, Len(s) - n + 1), Len(s))

\* the samples of the i-th chunk formed lie in the full buffer, after those of
\* the chunks formed before it
InFullBuffer(i) ==
    LET before == SumLen(SubSeq(produced, 1, i - 1))
    IN SubSeq(ring.full_buffer, before + 1, before + Len(produced[i].samples))
           = produced[i].samples

\* C14: the ready queue never holds more than max_queue_size chunks; an
\* add_samples call leaves in it the last max_queue_size of (the chunks queued
\* before the call followed by the chunks the call formed, in order), that is,
\* each chunk formed on a full queue pushes out exactly the oldest one and goes
\* to the tail; the full buffer holds the samples of every chunk formed, those
\* pushed out of the queue included.
C14_QueueBoundedDropOldest ==
    /\ [](/\ Len(ring.chunks) <= MaxQueueSize
          /\ \A i \in 1..Len(produced) : InFullBuffer(i))
    /\ [][fed' > fed =>
             ring'.chunks =
                 LastN(ring.chunks \o SubSeq(produced', Len(produced) + 1, Len(produced')),
                       MaxQueueSize)]_vars

\* add_samples formed a chunk on a full queue that nobody read: the queue holds
\* the last max_queue_size chunks, chunk 0 is gone from it and still in the
\* full buffer
C14_Witness ==
    /\ Len(produced) = MaxQueueSize + 1
    /\ Len(ring.chunks) = MaxQueueSize
    /\ ring.chunks[1].chunk_index = 1
    /\ ring.chunks[MaxQueueSize].chunk_index = MaxQueueSize
    /\ InFullBuffer(1)
    /\ ring.pending_samples # <<>>

\* C30: flush_remaining with empty pending returns None and changes nothing;
\* with pending samples it returns one chunk made of all of them, with the next
\* index and has_overlap = (index > 0), appends its samples to the full buffer,
\* empties pending and leaves the ready queue alone; a flush right after it
\* returns None.
C30_FlushRemaining ==
    /\ [](ring.pending_samples = <<>> =>
            /\ FlushedChunk(ring, input_ratio) = <<>>
            /\ flush_remaining(ring, input_ratio) = ring)
    /\ [][(fed' = fed /\ produced' # produced) =>
             LET chunk == produced'[Len(produced')]
             IN /\ ring.pending_samples # <<>>
                /\ Len(produced') = Len(produced) + 1
                /\ chunk.samples = Resample(ring.pending_samples, input_ratio)
                /\ chunk.chunk_index = ring.chunk_counter
                /\ chunk.has_overlap = (chunk.chunk_index > 0)
                /\ ring'.chunk_counter = ring.chunk_counter + 1
                /\ ring'.full_buffer = ring.full_buffer \o chunk.samples
                /\ ring'.pending_samples = <<>>
                /\ ring'.chunks = ring.chunks
                /\ FlushedChunk(ring', input_ratio) = <<>>]_vars

\* a flush after two full chunks: the third chunk is the short final one, it is
\* in the full buffer and not in the ready queue
C30_Witness ==
    /\ Len(produced) = 3
    /\ ring.pending_samples = <<>>
    /\ produced[3].has_overlap
    /\ Len(produced[3].samples) < ChunkSizeSamples
    /\ \A i \in 1..Len(ring.chunks) : ring.chunks[i].chunk_index < 2

CallbackBlocks == {ChunkSizeSamples, ChunkSizeSamples + 1}

\* samples delivered in a run with that many sessions: up to MaxRecSamples when it
\* has one session, one chunk's worth when it has more
SampleBudget(sessions) == IF sessions <= 1 THEN MaxRecSamples ELSE ChunkSizeSamples

InitSystem ==
    /\ now = 0
    /\ key_down = FALSE
    /\ hk = [pc |-> "idle", session |-> 0, buffer_len |-> 0]
    /\ is_hotkey_recording = FALSE
    /\ recording_start_time = 0
    /\ is_streaming_active = FALSE
    /\ settings \in [streaming_enabled : BOOLEAN, streaming_mode : StreamingModes,
                      model_id : {"base"}]
    /\ capture = NoCapture
    /\ streaming = NewStreamingService(0)
    /\ tasks = [t \in TaskIds |-> NoTaskState]
    /\ sess = [s \in Sessions |-> NoSession]
    /\ submitted = [s \in Sessions |-> <<>>]
    /\ last_completion_ms = <<>>
    /\ press_gap = <<>>
    /\ engine = NewEngine
    /\ engine_lock = [holder |-> NoTask, queue |-> <<>>]
    /\ model_files \in {{}, {"base"}}
    /\ gpu_backend = FALSE
    /\ callers = <<>>
    /\ UnitsIdle
    /\ input_ratio = 1
    /\ ring = EmptyRing(0)
    /\ produced = <<>>
    /\ fed = 0

\* the wall clock advances (it is first read by the first press: time 0)
Tick ==
    /\ hk.session > 0
    /\ now < MaxTicks * poll_interval
    /\ now' = now + poll_interval
    /\ UNCHANGED <<key_down, hk, is_hotkey_recording, recording_start_time, is_streaming_active,
                   settings, capture, streaming, tasks, historyVars, ringVars, engineVars, callers, unitVars>>

\* the input-stream callback of AudioCaptureService::start delivers n mono samples
AudioCallback ==
    /\ capture.is_recording
    /\ \E n \in CallbackBlocks :
          /\ fed + n <= SampleBudget(hk.session)
          /\ fed' = fed + n
          /\ capture' = [capture EXCEPT !.buffer_len = @ + n]
          /\ ring' = IF capture.streaming_enabled
                     THEN add_samples(ring, Block(capture.buffer_len, n), input_ratio)
                     ELSE ring
    /\ UNCHANGED <<hotkeyVars, streaming, tasks, historyVars, input_ratio, produced,
                   engineVars, callers, unitVars>>

\* ShortcutState::Pressed up to the first command sent to the audio thread
HkPressed ==
    /\ hk.pc = "idle"
    /\ ~key_down
    /\ is_hotkey_recording \/ (hk.session < MaxSessions /\ fed <= SampleBudget(hk.session + 1))
    /\ key_down' = TRUE
    /\ IF is_hotkey_recording
       THEN UNCHANGED <<hk, is_hotkey_recording, recording_start_time, is_streaming_active,
                        sess, press_gap>>
       ELSE LET s == hk.session + 1
            IN /\ is_hotkey_recording' = TRUE
               /\ recording_start_time' = now
               /\ is_streaming_active' = settings.streaming_enabled
               /\ hk' = [hk EXCEPT !.session = s,
                                    !.pc = IF settings.streaming_enabled
                                           THEN "enable_streaming" ELSE "start"]
               /\ sess' = [sess EXCEPT ![s].streaming = settings.streaming_enabled]
               /\ press_gap' = IF last_completion_ms = <<>> THEN <<>>
                                ELSE <<now - last_completion_ms[1]>>
    /\ UNCHANGED <<now, settings, capture, streaming, tasks, submitted, last_completion_ms,
                   ringVars, engineVars, callers, unitVars>>

\* AudioCommand::EnableStreaming, then the spawn of service.start(mode) and of
\* process_streaming_chunks. created_ok: AudioCaptureService::new succeeds
HkEnableStreaming ==
    /\ hk.pc = "enable_streaming"
    /\ \E created_ok \in BOOLEAN :
          /\ capture.created => created_ok
          /\ capture' = IF capture.created \/ created_ok
                        THEN [capture EXCEPT !.created = TRUE, !.streaming_enabled = TRUE]
                        ELSE capture
    /\ tasks' = [tasks EXCEPT ![StartTask(hk.session)] = [NoTaskState EXCEPT !.pc = "start"],
                              ![PollTask(hk.session)] = [NoTaskState EXCEPT !.pc = "check"]]
    /\ hk' = [hk EXCEPT !.pc = "start"]
    /\ UNCHANGED <<now, key_down, is_hotkey_recording, recording_start_time, is_streaming_active,
                   settings, streaming, historyVars, ringVars, engineVars, callers, unitVars>>

\* AudioCommand::Start (AudioCaptureService::start) and the handler's match on the reply
HkStart ==
    /\ hk.pc = "start"
    /\ \E outcome \in {"ok", "no_device", "stream_error"} :
          /\ capture.created => outcome # "no_device"
          /\ capture.is_recording => outcome = "ok"
          /\ IF outcome = "no_device" \/ capture.is_recording
             THEN UNCHANGED <<capture, ring>>
             ELSE /\ capture' = [capture EXCEPT
                        !.created = TRUE,
                        !.buffer_len = 0,
                        !.is_recording = (outcome = "ok"),
                        !.ring_session = IF capture.streaming_enabled THEN hk.session ELSE @]
                  /\ ring' = IF capture.streaming_enabled THEN reset(ring, now) ELSE ring
          /\ IF outcome = "ok"
             THEN /\ sess' = [sess EXCEPT ![hk.session].started = TRUE]
                  /\ UNCHANGED <<is_hotkey_recording, is_streaming_active>>
             ELSE /\ is_hotkey_recording' = FALSE
                  /\ is_streaming_active' = FALSE
                  /\ UNCHANGED sess
    /\ hk' = [hk EXCEPT !.pc = "idle"]
    /\ UNCHANGED <<now, key_down, recording_start_time, settings, streaming, tasks,
                   submitted, last_completion_ms, press_gap,
                   input_ratio, produced, fed, engineVars, callers, unitVars>>

\* the release handler without its elapsed-time test
release_never_ignored(elapsed) == FALSE

\* the release handler's test `elapsed < MIN_RECORDING_DURATION_MS`
release_ignored(elapsed) == elapsed < MIN_RECORDING_DURATION_MS

\* ShortcutState::Released up to the call of the completion handler
HkReleased ==
    /\ hk.pc = "idle"
    /\ key_down
    /\ key_down' = FALSE
    /\ IF ~is_hotkey_recording
       THEN UNCHANGED <<hk, is_hotkey_recording, is_streaming_active, sess>>
       ELSE IF release_ignored(now - recording_start_time)
       THEN /\ sess' = [sess EXCEPT ![hk.session].tap = TRUE]
            /\ UNCHANGED <<hk, is_hotkey_recording, is_streaming_active>>
       ELSE /\ is_hotkey_recording' = FALSE
            /\ is_streaming_active' = FALSE
            /\ hk' = [hk EXCEPT !.pc = IF is_streaming_active
                                       THEN "stop_streaming" ELSE "stop_batch"]
            /\ sess' = [sess EXCEPT ![hk.session].released = TRUE]
    /\ UNCHANGED <<now, recording_start_time, settings, capture, streaming, tasks,
                   submitted, last_completion_ms, press_gap, ringVars, engineVars, callers, unitVars>>

\* handle_streaming_completion: AudioCommand::Stop and the empty-buffer return
HkStopStreaming ==
    /\ hk.pc = "stop_streaming"
    /\ IF ~capture.created
       THEN /\ hk' = [hk EXCEPT !.pc = "idle"]
            /\ UNCHANGED capture
       ELSE /\ capture' = [capture EXCEPT !.is_recording = FALSE, !.buffer_len = 0]
            /\ hk' = [hk EXCEPT !.pc = IF capture.buffer_len = 0 THEN "idle" ELSE "finish_streaming",
                                 !.buffer_len = capture.buffer_len]
    /\ UNCHANGED <<now, key_down, is_hotkey_recording, recording_start_time, is_streaming_active,
                   settings, streaming, tasks, historyVars, ringVars, engineVars, callers, unitVars>>

\* a chunk fetched from the ring, with the session that recorded it
Tagged(cs, s) == [i \in 1..Len(cs) |-> [s |-> s, c |-> cs[i]]]

\* handle_streaming_completion: FlushChunk, GetFullBuffer (with the fallback to the
\* stop buffer, already at 16 kHz), DisableStreaming and the spawn of the task
HkFinishStreaming ==
    /\ hk.pc = "finish_streaming"
    /\ LET enabled     == capture.streaming_enabled
           final_chunk == IF enabled THEN FlushedChunk(ring, input_ratio) ELSE <<>>
           flushed     == IF enabled THEN flush_remaining(ring, input_ratio) ELSE ring
           full        == IF enabled THEN flushed.full_buffer ELSE <<>>
           full_len    == IF full # <<>> THEN Len(full) ELSE hk.buffer_len
       IN /\ ring' = flushed
          /\ capture' = [capture EXCEPT !.streaming_enabled = FALSE]
          /\ tasks' = [tasks EXCEPT ![CompletionTask(hk.session)] =
                 [NoTaskState EXCEPT !.pc = IF final_chunk # <<>> THEN "submit" ELSE "reconcile",
                                     !.batch = Tagged(final_chunk, capture.ring_session),
                                     !.full_len = full_len]]
    /\ hk' = [hk EXCEPT !.pc = "idle"]
    /\ UNCHANGED <<now, key_down, is_hotkey_recording, recording_start_time, is_streaming_active,
                   settings, streaming, historyVars, input_ratio, produced, fed,
                   engineVars, callers, unitVars>>

\* handle_batch_transcription: AudioCommand::Stop, the empty-buffer return and the
\* spawn of the transcription task
HkStopBatch ==
    /\ hk.pc = "stop_batch"
    /\ IF ~capture.created
       THEN UNCHANGED <<capture, tasks>>
       ELSE /\ capture' = [capture EXCEPT !.is_recording = FALSE, !.buffer_len = 0]
            /\ tasks' = IF capture.buffer_len = 0 THEN tasks
                        ELSE [tasks EXCEPT ![CompletionTask(hk.session)] =
                                 [NoTaskState EXCEPT !.pc = "batch",
                                                     !.full_len = capture.buffer_len]]
    /\ hk' = [hk EXCEPT !.pc = "idle"]
    /\ UNCHANGED <<now, key_down, is_hotkey_recording, recording_start_time, is_streaming_active,
                   settings, streaming, historyVars, ringVars, engineVars, callers, unitVars>>

\* the task running StreamingTranscriptionService::start(mode); its stores are
\* taken as one step
ServiceStart(s) ==
    /\ tasks[StartTask(s)].pc = "start"
    /\ streaming' = [accumulated_text |-> <<>>, last_chunk_index |-> 0, is_active |-> TRUE,
                     last_context |-> <<>>, last_emit_time |-> now - 1000,
                     chunks_processed |-> 0, mode |-> settings.streaming_mode]
    /\ tasks' = [tasks EXCEPT ![StartTask(s)].pc = "done"]
    /\ UNCHANGED <<hotkeyVars, capture, historyVars, ringVars, engineVars, callers, unitVars>>

\* process_streaming_chunks: the while condition
PollCheck(s) ==
    /\ tasks[PollTask(s)].pc = "check"
    /\ tasks' = [tasks EXCEPT ![PollTask(s)].pc = IF is_hotkey_recording THEN "sleep" ELSE "done",
                              ![PollTask(s)].wake_at = now + poll_interval]
    /\ UNCHANGED <<hotkeyVars, capture, streaming, historyVars, ringVars, engineVars, callers, unitVars>>

\* process_streaming_chunks: the sleep ends, AudioCommand::GetChunks
\* (AudioCaptureService::get_pending_chunks)
PollGetChunks(s) ==
    /\ tasks[PollTask(s)].pc = "sleep"
    /\ now >= tasks[PollTask(s)].wake_at
    /\ LET enabled == capture.created /\ capture.streaming_enabled
           chunks  == IF enabled THEN ring.chunks ELSE <<>>
       IN /\ ring' = IF enabled THEN get_pending_chunks(ring) ELSE ring
          /\ tasks' = [tasks EXCEPT ![PollTask(s)].pc = IF chunks = <<>> THEN "check" ELSE "submit",
                                    ![PollTask(s)].batch = Tagged(chunks, capture.ring_session)]
    /\ UNCHANGED <<hotkeyVars, capture, streaming, historyVars, input_ratio, produced, fed,
                   engineVars, callers, unitVars>>

\* the lazy load of the auto-load methods, done with the lock held
AutoLoad(e, m, gpu, files, native) ==
    IF is_loaded(e) THEN [engine |-> e, result |-> "Ok"]
    ELSE IF m \notin files THEN [engine |-> e, result |-> "ModelNotLoaded"]
    ELSE LET r == load_model(e, m, gpu, files, native)
         IN IF r.result = "Ok" THEN r ELSE [engine |-> e, result |-> "ModelNotLoaded"]

ChunkTasks == {PollTask(s) : s \in Sessions} \cup {CompletionTask(s) : s \in Sessions}

\* the task after process_chunk returned: the next chunk of the batch, or the
\* code after the loop
Returned(t) ==
    [tasks[t] EXCEPT !.batch = Tail(@),
                     !.result = <<>>,
                     !.pc = IF Len(tasks[t].batch) > 1 THEN "submit"
                            ELSE IF t[1] = "poll" THEN "check" ELSE "reconcile"]

\* mutant: only the is_active check
rejects_inactive_only(service, chunk_index) == ~service.is_active

\* the two early returns of process_chunk: Err("Streaming not active") on a
\* service that is not active, Err("Chunk already processed") for a chunk below
\* last_chunk_index
process_chunk_rejects(service, chunk_index) ==
    ~service.is_active \/ chunk_index < service.last_chunk_index

\* process_chunk is called: the is_active and duplicate checks, then the call of
\* transcribe_chunk_with_auto_load up to inner.lock().await
PcCall(t) ==
    /\ tasks[t].pc = "submit"
    /\ LET s == Head(tasks[t].batch).s
           c == Head(tasks[t].batch).c
       IN /\ submitted' = IF s \in Sessions
                          THEN [submitted EXCEPT ![s] = Append(@, c.chunk_index)]
                          ELSE submitted
          /\ IF process_chunk_rejects(streaming, c.chunk_index)
             THEN /\ tasks' = [tasks EXCEPT ![t] = Returned(t)]
                  /\ UNCHANGED engine_lock
             ELSE /\ tasks' = [tasks EXCEPT ![t].pc = "locking"]
                  /\ engine_lock' = MutexLock(engine_lock, t)
    /\ UNCHANGED <<hotkeyVars, capture, streaming, sess, last_completion_ms, press_gap,
                   ringVars, engine, model_files, gpu_backend, callers, unitVars>>

\* a partial event
PartialEvent(text, chunk_index, timestamp_ms) ==
    [text |-> text, chunk_index |-> chunk_index, timestamp_ms |-> timestamp_ms]

\* app.emit("transcription://partial", event) on behalf of session s
EmitPartial(s, event) ==
    IF s \in Sessions THEN [sess EXCEPT ![s].partials = Append(@, event)] ELSE sess

\* the engine call of process_chunk failed (ModelNotLoaded, InferenceFailed) and
\* process_chunk returned the Err to task t, for a chunk of session s: the poll
\* loop calls emit_error with the chunk's index, the completion task discards
\* the result (let _ =)
ChunkFailed(t, s, chunk_index) ==
    IF s \notin Sessions THEN sess
    ELSE [sess EXCEPT ![s].failed = @ \cup {chunk_index},
                      ![s].reported = IF t[1] = "poll" THEN @ \cup {chunk_index} ELSE @]

\* transcribe_chunk_with_auto_load holds the lock: lazy load, then transcribe_chunk
\* up to the inference
PcLocked(t) ==
    /\ tasks[t].pc = "locking"
    /\ engine_lock.holder = t
    /\ \E native \in {"ok", "fails"} :
          LET c == Head(tasks[t].batch).c
              r == AutoLoad(engine, settings.model_id, gpu_backend, model_files, native)
              pre == transcribe_chunk_pre(r.engine, Len(c.samples))
          IN /\ (is_loaded(engine) \/ settings.model_id \notin model_files) => native = "ok"
             /\ engine' = r.engine
             /\ IF r.result # "Ok"
                THEN /\ tasks' = [tasks EXCEPT ![t] = Returned(t)]
                     /\ engine_lock' = MutexUnlock(engine_lock)
                     /\ sess' = ChunkFailed(t, Head(tasks[t].batch).s, c.chunk_index)
                ELSE IF pre = "OkEmpty"
                THEN /\ tasks' = [tasks EXCEPT ![t].pc = "update", ![t].result = <<>>]
                     /\ engine_lock' = MutexUnlock(engine_lock)
                     /\ UNCHANGED sess
                ELSE /\ tasks' = [tasks EXCEPT ![t].pc = "inference"]
                     /\ UNCHANGED <<engine_lock, sess>>
    /\ UNCHANGED <<hotkeyVars, capture, streaming, submitted, last_completion_ms, press_gap,
                   ringVars, model_files, gpu_backend, callers, unitVars>>

\* the inference of the chunk returns: its text is one word (the chunk's index)
PcInferenceDone(t) ==
    /\ tasks[t].pc = "inference"
    /\ \E res \in {"Ok", "InferenceFailed"} :
          IF res = "Ok"
          THEN /\ tasks' = [tasks EXCEPT ![t].pc = "update",
                                         ![t].result = <<Head(tasks[t].batch).c.chunk_index>>]
               /\ UNCHANGED sess
          ELSE /\ tasks' = [tasks EXCEPT ![t] = Returned(t)]
               /\ sess' = ChunkFailed(t, Head(tasks[t].batch).s,
                                      Head(tasks[t].batch).c.chunk_index)
    /\ engine_lock' = MutexUnlock(engine_lock)
    /\ UNCHANGED <<hotkeyVars, capture, streaming, submitted, last_completion_ms, press_gap,
                   ringVars, engine, model_files, gpu_backend, callers, unitVars>>

\* process_chunk after the engine returned Ok: the state update and maybe_emit_partial
PcUpdate(t) ==
    /\ tasks[t].pc = "update"
    /\ LET c    == Head(tasks[t].batch).c
           text == streaming.accumulated_text \o tasks[t].result
           emit == now - streaming.last_emit_time >= MIN_EMIT_INTERVAL_MS
       IN /\ streaming' = [streaming EXCEPT
              !.last_chunk_index = c.chunk_index + 1,
              !.chunks_processed = @ + 1,
              !.accumulated_text = text,
              !.last_context = IF tasks[t].result # <<>> THEN <<text>> ELSE @,
              !.last_emit_time = IF emit THEN now ELSE @]
          /\ sess' = IF emit
                     THEN EmitPartial(Head(tasks[t].batch).s,
                                      PartialEvent(text, c.chunk_index, c.timestamp_ms))
                     ELSE sess
    /\ tasks' = [tasks EXCEPT ![t] = Returned(t)]
    /\ UNCHANGED <<hotkeyVars, capture, submitted, last_completion_ms, press_gap,
                   ringVars, engineVars, callers, unitVars>>

\* a splice that keeps the streaming words but the last tail words + 1
SpliceTailOverlap1(streaming_text, tail_text) ==
    IF Len(streaming_text) > Len(tail_text)
    THEN SubSeq(streaming_text, 1, Max(0, Len(streaming_text) - (Len(tail_text) + 1))) \o tail_text
    ELSE tail_text

\* the text Balanced mode emits: the streaming words but the last
\* tail words + 2, then the tail text; or the tail text alone
SpliceTail(streaming_text, tail_text) ==
    IF Len(streaming_text) > Len(tail_text)
    THEN SubSeq(streaming_text, 1, Max(0, Len(streaming_text) - (Len(tail_text) + 2))) \o tail_text
    ELSE tail_text

\* force_emit_partial (an event of the text as it is), then reconcile: reads mode and
\* text; emits the final event at once (Speed, or Balanced on short audio), or calls
\* transcribe_with_auto_load_and_prompt up to the lock
CompReconcile(s) ==
    LET t      == CompletionTask(s)
        mode   == streaming.mode
        forced == EmitPartial(s, PartialEvent(streaming.accumulated_text,
                                              streaming.last_chunk_index, now))
    IN /\ tasks[t].pc = "reconcile"
       /\ IF mode = "Speed" \/ (mode = "Balanced" /\ tasks[t].full_len <= last_5_secs_samples)
          THEN /\ sess' = [forced EXCEPT ![s].finals = @ + 1]
               /\ tasks' = [tasks EXCEPT ![t].pc = "stop",
                                         ![t].text = streaming.accumulated_text,
                                         ![t].mode = mode]
               /\ UNCHANGED engine_lock
          ELSE /\ tasks' = [tasks EXCEPT ![t].pc = "full_locking",
                                         ![t].text = streaming.accumulated_text,
                                         ![t].mode = mode]
               /\ engine_lock' = MutexLock(engine_lock, t)
               /\ sess' = forced
       /\ UNCHANGED <<hotkeyVars, capture, streaming, submitted, last_completion_ms, press_gap,
                      ringVars, engine, model_files, gpu_backend, callers, unitVars>>

\* the task spawned by handle_batch_transcription calls transcribe_with_auto_load
BatchCall(s) ==
    /\ tasks[CompletionTask(s)].pc = "batch"
    /\ tasks' = [tasks EXCEPT ![CompletionTask(s)].pc = "full_locking",
                              ![CompletionTask(s)].mode = "Batch"]
    /\ engine_lock' = MutexLock(engine_lock, CompletionTask(s))
    /\ UNCHANGED <<hotkeyVars, capture, streaming, historyVars, ringVars,
                   engine, model_files, gpu_backend, callers, unitVars>>

\* the task after transcribe_with_auto_load_and_prompt returned Err: reconcile
\* returns it and the handler falls back to the accumulated text; the batch task
\* emits hotkey://transcription-error
FullFailed(t) ==
    IF tasks[t].mode = "Batch" THEN [tasks[t] EXCEPT !.pc = "done"]
    ELSE [tasks[t] EXCEPT !.pc = "stop", !.text = streaming.accumulated_text]

\* history: reconcile of session s returned Err
ReconcileErr(s) ==
    IF tasks[CompletionTask(s)].mode = "Batch" THEN sess
    ELSE [sess EXCEPT ![s].reconcile_err = TRUE]

\* transcribe_with_auto_load_and_prompt holds the lock: lazy load, then
\* transcribe_with_prompt up to the inference
FullLocked(s) ==
    LET t == CompletionTask(s)
    IN /\ tasks[t].pc = "full_locking"
       /\ engine_lock.holder = t
       /\ \E native \in {"ok", "fails"} :
             LET r == AutoLoad(engine, settings.model_id, gpu_backend, model_files, native)
             IN /\ (is_loaded(engine) \/ settings.model_id \notin model_files) => native = "ok"
                /\ engine' = r.engine
                /\ IF r.result = "Ok"
                      /\ transcribe_with_prompt_pre(r.engine, tasks[t].full_len) = "run"
                   THEN /\ tasks' = [tasks EXCEPT ![t].pc = "full_inference"]
                        /\ UNCHANGED <<engine_lock, sess>>
                   ELSE /\ tasks' = [tasks EXCEPT ![t] = FullFailed(t)]
                        /\ engine_lock' = MutexUnlock(engine_lock)
                        /\ sess' = ReconcileErr(s)
       /\ UNCHANGED <<hotkeyVars, capture, streaming, submitted, last_completion_ms, press_gap,
                      ringVars, model_files, gpu_backend, callers, unitVars>>

\* the words of a re-transcription
TailTexts == {<<-1>>}

\* the inference over the tail or the full audio returns; on Ok reconcile emits
\* the final event
FullDone(s) ==
    LET t == CompletionTask(s)
    IN /\ tasks[t].pc = "full_inference"
       /\ engine_lock' = MutexUnlock(engine_lock)
       /\ \/ /\ tasks' = [tasks EXCEPT ![t] = FullFailed(t)]
             /\ sess' = ReconcileErr(s)
          \/ \E tail \in TailTexts :
                IF tasks[t].mode = "Batch"
                THEN /\ tasks' = [tasks EXCEPT ![t].pc = "finish", ![t].text = tail]
                     /\ UNCHANGED sess
                ELSE /\ tasks' = [tasks EXCEPT
                           ![t].pc = "stop",
                           ![t].text = IF tasks[t].mode = "Balanced"
                                       THEN SpliceTail(tasks[t].text, tail) ELSE tail]
                     /\ sess' = [sess EXCEPT ![s].finals = @ + 1]
       /\ UNCHANGED <<hotkeyVars, capture, streaming, submitted, last_completion_ms, press_gap,
                      ringVars, engine, model_files, gpu_backend, callers, unitVars>>

\* service.stop(), then the history entry, the clipboard write and
\* hotkey://transcription-complete
CompStop(s) ==
    /\ tasks[CompletionTask(s)].pc = "stop"
    /\ streaming' = [streaming EXCEPT !.is_active = FALSE]
    /\ tasks' = [tasks EXCEPT ![CompletionTask(s)].pc = "done"]
    /\ last_completion_ms' = <<now>>
    /\ UNCHANGED <<hotkeyVars, capture, sess, submitted, press_gap,
                   ringVars, engineVars, callers, unitVars>>

\* the batch task after Ok: history entry, clipboard write and
\* hotkey://transcription-complete
BatchFinish(s) ==
    /\ tasks[CompletionTask(s)].pc = "finish"
    /\ tasks' = [tasks EXCEPT ![CompletionTask(s)].pc = "done"]
    /\ last_completion_ms' = <<now>>
    /\ UNCHANGED <<hotkeyVars, capture, streaming, sess, submitted, press_gap,
                   ringVars, engineVars, callers, unitVars>>

Next ==
    \/ Tick
    \/ AudioCallback
    \/ HkPressed
    \/ HkEnableStreaming
    \/ HkStart
    \/ HkReleased
    \/ HkStopStreaming
    \/ HkFinishStreaming
    \/ HkStopBatch
    \/ \E s \in Sessions :
          \/ ServiceStart(s)
          \/ PollCheck(s)
          \/ PollGetChunks(s)
          \/ CompReconcile(s)
          \/ BatchCall(s)
          \/ FullLocked(s)
          \/ FullDone(s)
          \/ CompStop(s)
          \/ BatchFinish(s)
    \/ \E t \in ChunkTasks :
          \/ PcCall(t)
          \/ PcLocked(t)
          \/ PcInferenceDone(t)
          \/ PcUpdate(t)

Spec == InitSystem /\ [][Next]_vars

(***************************************************************************)
(* SpecStream: one StreamingTranscriptionService and the tasks that call   *)
(* it (service.start, the chunk-poll loop, the completion task); the       *)
(* engine is what its calls return, the clock is in milliseconds           *)
(***************************************************************************)
ServiceTasks == {"start", "poll", "completion"}

\* the clock advances by the emit interval, twice
ClockStep == MIN_EMIT_INTERVAL_MS

MaxClock == 2 * ClockStep

\* the locals of a task; and two histories: rejected tells that its last
\* process_chunk call returned at the is_active / duplicate checks, limited (start
\* task) that maybe_emit_partial has emitted since start() last reset last_emit_time
IdleTask ==
    [pc |-> "idle", chunk |-> <<>>, text |-> <<>>, full_len |-> 0, mode |-> None,
     rejected |-> FALSE, limited |-> FALSE]

InitStream ==
    /\ now = 0
    /\ streaming = NewStreamingService(0)
    /\ callers = [t \in ServiceTasks |-> IdleTask]
    /\ emitted = <<>>
    /\ audio_state = NewAudioState
    /\ unit = NoUnit
    /\ key_down = FALSE
    /\ hk = [pc |-> "idle", session |-> 0, buffer_len |-> 0]
    /\ is_hotkey_recording = FALSE
    /\ recording_start_time = 0
    /\ is_streaming_active = FALSE
    /\ settings \in [streaming_enabled : {TRUE}, streaming_mode : StreamingModes,
                      model_id : {"base"}]
    /\ capture = NoCapture
    /\ tasks = [t \in TaskIds |-> NoTaskState]
    /\ sess = [s \in Sessions |-> NoSession]
    /\ submitted = [s \in Sessions |-> <<>>]
    /\ last_completion_ms = <<>>
    /\ press_gap = <<>>
    /\ EngineIdle
    /\ input_ratio = 1
    /\ ring = EmptyRing(0)
    /\ produced = <<>>
    /\ fed = 0

\* what SpecStream leaves alone; of the ring it keeps the chunk counter, of the
\* handler the number of sessions started
streamFrame ==
    <<key_down, is_hotkey_recording, recording_start_time, is_streaming_active, settings,
      capture, tasks, historyVars, input_ratio, produced, fed, engineVars, audio_state, unit>>

\* app.emit(event, payload) at the current time
Emit(event, text, reconciled) ==
    Append(emitted, [event |-> event, at |-> now, text |-> text, reconciled |-> reconciled])

\* time passes
StreamTick ==
    /\ now < MaxClock
    /\ now' = now + ClockStep
    /\ UNCHANGED <<streaming, callers, emitted, ring, hk, streamFrame>>

\* the highest chunk index of a session: later sessions are short, and follow a
\* short first session (one chunk, one event at most)
LastChunkIndex(session) == IF session <= 1 THEN MaxChunkIndex ELSE 0

\* a press: the recording starts (AudioCommand::Start resets the ring) and the
\* task running start(mode) is spawned with the mode of the settings. start runs in the order of its
\* statements; a step ends where the task can be suspended (the await of a lock)
\* once the stores before it are done.
StreamStart ==
    LET t == "start"
    IN /\ \/ /\ callers[t].pc = "idle"
             /\ hk.pc = "idle"
             /\ hk.session < MaxSessions
             /\ hk.session > 0 => (ring.chunk_counter <= 1 /\ Len(emitted) <= 1)
             /\ callers' = [callers EXCEPT ![t].pc = "start_context",
                                           ![t].mode = settings.streaming_mode]
             /\ streaming' = [streaming EXCEPT !.accumulated_text = <<>>,
                                               !.last_chunk_index = 0,
                                               !.is_active = TRUE]
             /\ ring' = reset(ring, now)
             /\ hk' = [hk EXCEPT !.session = @ + 1, !.pc = "recording"]
          \/ /\ callers[t].pc = "start_context"
             /\ callers' = [callers EXCEPT ![t].pc = "start_counters",
                                           ![t].limited = FALSE]
             /\ streaming' = [streaming EXCEPT !.last_context = <<>>,
                                               !.last_emit_time = now - 1000]
             /\ UNCHANGED <<ring, hk>>
          \/ /\ callers[t].pc = "start_counters"
             /\ callers' = [callers EXCEPT ![t].pc = "idle", ![t].mode = None]
             /\ streaming' = [streaming EXCEPT !.chunks_processed = 0,
                                               !.mode = callers[t].mode]
             /\ UNCHANGED <<ring, hk>>
       /\ UNCHANGED <<now, emitted, streamFrame>>

\* the task after process_chunk returned: the poll loop goes on, the completion
\* task goes to force_emit_partial
AfterChunk(t) == [IdleTask EXCEPT !.pc = IF t = "poll" THEN "idle" ELSE "force"]

\* the poll loop, or the completion task spawned by the release with the flushed
\* chunk, takes the next chunk of the recording and calls process_chunk(chunk):
\* the is_active and duplicate checks; the context is read and the engine is
\* called
StreamProcessChunk(t) ==
    /\ t \in {"poll", "completion"}
    /\ callers[t].pc = "idle"
    /\ hk.session > 0
    /\ t = "completion" => hk.pc = "recording"
    /\ ring.chunk_counter <= LastChunkIndex(hk.session)
    /\ LET i     == ring.chunk_counter
           chunk == AudioChunk(Block(i * ChunkSizeSamples, ChunkSizeSamples), i,
                               calculate_timestamp(ring.start_time_ms, ChunkSizeSamples, i),
                               i > 0)
       IN callers' = IF process_chunk_rejects(streaming, chunk.chunk_index)
                     THEN [callers EXCEPT ![t] = [AfterChunk(t) EXCEPT !.rejected = TRUE]]
                     ELSE [callers EXCEPT ![t].pc = "engine", ![t].chunk = <<chunk>>,
                                          ![t].rejected = FALSE]
    /\ ring' = [ring EXCEPT !.chunk_counter = fetch_add(@)]
    /\ hk' = IF t = "completion" THEN [hk EXCEPT !.pc = "idle"] ELSE hk
    /\ UNCHANGED <<now, streaming, emitted, streamFrame>>

\* maybe_emit_partial with the clock at t: the event is let through when at least
\* MIN_EMIT_INTERVAL_MS passed since last_emit_time
\* mutant: no rate limit
emit_allowed_always(t, last_emit_time) == TRUE

emit_allowed(t, last_emit_time) == t - last_emit_time >= MIN_EMIT_INTERVAL_MS

\* transcribe_chunk_with_auto_load returns. Err: process_chunk returns it (?).
\* Ok, with a text of one word (the chunk's index): last_chunk_index and
\* chunks_processed are stored
StreamChunkDone(t) ==
    /\ callers[t].pc = "engine"
    /\ \/ /\ callers' = [callers EXCEPT ![t] = AfterChunk(t)]
          /\ UNCHANGED streaming
       \/ /\ streaming' = [streaming EXCEPT
                 !.last_chunk_index = callers[t].chunk[1].chunk_index + 1,
                 !.chunks_processed = @ + 1]
          /\ callers' = [callers EXCEPT ![t].pc = "update",
                                        ![t].text = <<callers[t].chunk[1].chunk_index>>]
    /\ UNCHANGED <<now, emitted, ring, hk, streamFrame>>

\* process_chunk after the stores: a text that is not empty is appended and the
\* context set to the new accumulated text; maybe_emit_partial emits if the
\* interval has elapsed; process_chunk returns Ok
StreamChunkUpdate(t) ==
    /\ callers[t].pc = "update"
    /\ LET c    == callers[t].chunk[1]
           text == streaming.accumulated_text \o callers[t].text
           emit == emit_allowed(now, streaming.last_emit_time)
       IN /\ emit => Len(emitted) < MaxEvents
          /\ streaming' = [streaming EXCEPT
                 !.accumulated_text = text,
                 !.last_context = IF callers[t].text # <<>> THEN <<text>> ELSE @,
                 !.last_emit_time = IF emit THEN now ELSE @]
          /\ emitted' = IF emit THEN Emit("partial", text, FALSE) ELSE emitted
          /\ callers' = [callers EXCEPT ![t] = AfterChunk(t),
                                        !["start"].limited = @ \/ emit]
    /\ UNCHANGED <<now, ring, hk, streamFrame>>

\* the completion task, spawned by the release without a flushed chunk, or after
\* that chunk: force_emit_partial. The rate limit is not looked at and
\* last_emit_time is left as it is.
StreamForceEmit ==
    LET t == "completion"
    IN /\ \/ callers[t].pc = "idle" /\ hk.pc = "recording"
          \/ callers[t].pc = "force"
       /\ Len(emitted) < MaxEvents
       /\ emitted' = Emit("forced", streaming.accumulated_text, FALSE)
       /\ callers' = [callers EXCEPT ![t].pc = "reconcile"]
       /\ hk' = [hk EXCEPT !.pc = "idle"]
       /\ UNCHANGED <<now, streaming, ring, streamFrame>>

\* reconcile(full_audio) is called: Speed, and Balanced on at most 5 s of audio,
\* emit the final event with the streaming text; the other cases call the engine
StreamReconcile ==
    LET t == "completion"
    IN /\ callers[t].pc = "reconcile"
       /\ Len(emitted) < MaxEvents
       /\ \E full_len \in {last_5_secs_samples, last_5_secs_samples + 1} :
             LET mode == streaming.mode
                 text == streaming.accumulated_text
                 call == [callers[t] EXCEPT !.text = text, !.full_len = full_len, !.mode = mode]
             IN IF mode = "Speed" \/ (mode = "Balanced" /\ ~(full_len > last_5_secs_samples))
                THEN /\ emitted' = Emit("complete", text, FALSE)
                     /\ callers' = [callers EXCEPT ![t] = [call EXCEPT !.pc = "stop"]]
                ELSE /\ callers' = [callers EXCEPT ![t] = [call EXCEPT !.pc = "re_engine"]]
                     /\ UNCHANGED emitted
       /\ UNCHANGED <<now, streaming, ring, hk, streamFrame>>

\* the texts a re-transcription returns
ReTexts == {<<>>, <<-1>>, <<-1, -2>>}

\* transcribe_with_auto_load_and_prompt returns to reconcile. Err: reconcile
\* returns it (?). Ok: Balanced splices the text of the tail, Accuracy takes the
\* text of the full pass; the final event is emitted with reconciled = true
StreamReconcileDone ==
    LET t == "completion"
    IN /\ callers[t].pc = "re_engine"
       /\ \/ /\ callers' = [callers EXCEPT ![t].pc = "stop"]
             /\ UNCHANGED emitted
          \/ \E re \in ReTexts :
                /\ emitted' = Emit("complete",
                                   IF callers[t].mode = "Balanced"
                                   THEN SpliceTail(callers[t].text, re) ELSE re,
                                   TRUE)
                /\ callers' = [callers EXCEPT ![t].pc = "stop"]
       /\ UNCHANGED <<now, streaming, ring, hk, streamFrame>>

\* stop()
StreamStop ==
    /\ callers["completion"].pc = "stop"
    /\ streaming' = [streaming EXCEPT !.is_active = FALSE]
    /\ callers' = [callers EXCEPT !["completion"] = IdleTask]
    /\ UNCHANGED <<now, emitted, ring, hk, streamFrame>>

NextStream ==
    \/ StreamTick
    \/ StreamStart
    \/ \E t \in ServiceTasks :
          \/ StreamProcessChunk(t)
          \/ StreamChunkDone(t)
          \/ StreamChunkUpdate(t)
    \/ StreamForceEmit
    \/ StreamReconcile
    \/ StreamReconcileDone
    \/ StreamStop

SpecStream == InitStream /\ [][NextStream]_vars

(***************************************************************************)
(* Claims on the push-to-talk system                                       *)
(***************************************************************************)
\* a call of process_chunk by task t is in flight
InProcessChunk(t) == tasks[t].pc \in {"locking", "inference", "update"}

\* the handling of the accepted release of session s is over: the handler
\* returned and the task it spawned, if any, ended
SessionEnded(s) ==
    /\ sess[s].released
    /\ ~(hk.session = s /\ hk.pc \in {"stop_streaming", "finish_streaming", "stop_batch"})
    /\ tasks[CompletionTask(s)].pc \in {"none", "done"}

\* session s is between its accepted release and the hand-over of its text
Transcribing(s) == sess[s].released /\ ~SessionEnded(s)

\* C3: within one streaming session the chunks submitted to process_chunk, by the
\* poll loop and by the end-of-session flush, arrive in strictly increasing
\* chunk_index order.
C3_SubmittedInIncreasingOrder ==
    \A s \in Sessions :
        \A i \in 1..(Len(submitted[s]) - 1) : submitted[s][i] < submitted[s][i + 1]

\* C5: once the final event (transcription://complete) of a session was emitted, no
\* process_chunk submission of a chunk of that session is in flight.
C5_FinalAfterAllSubmissions ==
    \A s \in Sessions :
        sess[s].finals > 0 =>
            \A t \in ChunkTasks :
                InProcessChunk(t) => Head(tasks[t].batch).s # s

\* C6: a streaming session ended by an accepted release emits exactly one final
\* event: never more than one, and one once its completion is over.
C6_ExactlyOneFinalEvent ==
    \A s \in Sessions :
        /\ sess[s].finals <= 1
        /\ (sess[s].streaming /\ SessionEnded(s)) => sess[s].finals = 1

\* C7: no recording is started by a press that comes less than COOLDOWN_MS after
\* the completion of the previous session.
C7_CooldownBeforeNextRecording ==
    (hk.session > 0 /\ press_gap # <<>> /\ sess[hk.session].started)
        => press_gap[1] >= COOLDOWN_MS

\* C8: a press released less than MIN_RECORDING_DURATION_MS later starts no session:
\* no recording-started event, no capture left running, no transcription.
C8_TapStartsNoSession ==
    \A s \in Sessions :
        sess[s].tap =>
            /\ ~sess[s].started
            /\ ~(hk.session = s /\ capture.is_recording)
            /\ tasks[CompletionTask(s)].pc = "none"

\* C9: while a session is Transcribing or Injecting a press is ignored: the handler
\* is not on its way to send Start and no new recording has begun.
C9_PressIgnoredWhileTranscribing ==
    (\E s \in Sessions : Transcribing(s)) =>
        /\ hk.pc \notin {"enable_streaming", "start"}
        /\ ~is_hotkey_recording

\* C10: while the machine is Recording no reconciliation pass (reconcile, or the
\* batch transcription of a previous session) is running.
C10_NoReconcileWhileRecording ==
    (is_hotkey_recording /\ capture.is_recording) =>
        \A s \in Sessions :
            tasks[CompletionTask(s)].pc \notin {"full_locking", "full_inference"}

\* a is a prefix of b
IsPrefix(a, b) == Len(a) <= Len(b) /\ SubSeq(b, 1, Len(a)) = a

\* C12: over the partial events of one session, in emission order (rate-limited
\* and forced alike), chunk_index and timestamp_ms never decrease and each
\* event's text extends the text of the event before it.
C12_PartialsMonotone ==
    \A s \in Sessions :
        \A i \in 1..(Len(sess[s].partials) - 1) :
            LET a == sess[s].partials[i]
                b == sess[s].partials[i + 1]
            IN /\ a.chunk_index <= b.chunk_index
               /\ a.timestamp_ms <= b.timestamp_ms
               /\ IsPrefix(a.text, b.text)

\* C16: when the engine call of reconcile fails (Balanced tail pass or Accuracy
\* full pass), a final event (accumulated text, reconciled = false) is emitted
\* for the session.
C16_FinalEventOnReconcileError ==
    \A s \in Sessions : sess[s].reconcile_err => sess[s].finals >= 1

\* C17: every chunk of a session for which the engine returned an error,
\* whether submitted by the poll loop or the final flushed chunk, has an error
\* event carrying its index.
C17_ErrorEventPerFailedChunk ==
    \A s \in Sessions : sess[s].failed \subseteq sess[s].reported

\* C33: a release that arrives less than 200 ms after the recording started is
\* ignored: the machine stays Recording, no Stop command is sent and no task is
\* spawned. A release at or after 200 ms ends the recording and enters exactly
\* one completion path: streaming completion if streaming was active,
\* batch transcription otherwise.
C33_ReleaseThreshold ==
    [][(key_down /\ ~key_down' /\ is_hotkey_recording) =>
          IF now - recording_start_time < 200
          THEN /\ is_hotkey_recording'
               /\ hk'.pc = "idle"
               /\ UNCHANGED <<is_streaming_active, capture, tasks, streaming, ring>>
          ELSE /\ ~is_hotkey_recording'
               /\ hk'.pc = (IF is_streaming_active THEN "stop_streaming" ELSE "stop_batch")
               /\ UNCHANGED <<capture, tasks>>]_vars

\* both releases happened in one streaming session: the first, under 200 ms, was
\* ignored, the second, at 200 ms, has just entered the streaming completion
C33_Witness ==
    /\ sess[1].tap /\ sess[1].released /\ sess[1].streaming
    /\ now - recording_start_time = 200
    /\ hk.pc = "stop_streaming"

\* the completion task of streaming session s reached the call of reconcile
ReconcileStarted(s) ==
    /\ sess[s].streaming
    /\ tasks[CompletionTask(s)].pc \in {"reconcile", "full_locking", "full_inference", "stop", "done"}

\* C34: when the reconciliation of a streaming session starts, no chunk formed
\* during the session is left in the ready queue or fetched but not yet submitted:
\* each of them was submitted to process_chunk.
C34_ReadyChunksProcessedBeforeReconcile ==
    \A s \in Sessions :
        (ReconcileStarted(s) /\ capture.ring_session = s) =>
            /\ \A i \in 1..Len(ring.chunks) :
                  \E j \in 1..Len(submitted[s]) : submitted[s][j] = ring.chunks[i].chunk_index
            /\ \A i \in 1..Len(tasks[PollTask(s)].batch) :
                  \E j \in 1..Len(submitted[s]) :
                     submitted[s][j] = tasks[PollTask(s)].batch[i].c.chunk_index

\* the handler's match on the reply to AudioCommand::Start took an arm other
\* than Ok(AudioResponse::Ok) in this step
StartFailedStep ==
    /\ hk.pc = "start"
    /\ hk'.pc = "idle"
    /\ ~sess'[hk.session].started

\* C35: when the Start command fails on press, the machine is Idle again
\* (is_hotkey_recording and is_streaming_active false, no recording-started
\* event) and an error event of the session was emitted to the UI.
C35_FailedStartReportsError ==
    [][StartFailedStep =>
          /\ ~is_hotkey_recording'
          /\ ~is_streaming_active'
          /\ sess'[hk.session].reported # {}]_vars

\* C37: the chunk-poll loop of a session ends after the release that ended the
\* session: its while test never lets it into another iteration once the
\* session was released, so the loop of an earlier session does not run next to
\* the loop of a later one.
C37_PollLoopEndsAfterRelease ==
    [][\A s \in Sessions :
          (sess[s].released /\ tasks[PollTask(s)].pc = "check" /\ tasks'[PollTask(s)].pc # "check")
              => tasks'[PollTask(s)].pc = "done"]_vars

\* the machine is at rest: no recording, the handler returned, no task is running
AtRest ==
    /\ hk.pc = "idle"
    /\ ~is_hotkey_recording
    /\ \A t \in TaskIds : tasks[t].pc \in {"none", "done"}

\* C38: the streaming service is active only during a session: once every session
\* has ended, on whatever path (reconciled, reconciliation error, Stop failure,
\* empty buffer, failed Start), is_active is false.
C38_ActiveOnlyDuringSession ==
    AtRest => ~streaming.is_active

\* C39: within a session last_chunk_index never decreases: no step but the
\* start() that opens a session lowers it, however the process_chunk calls of the
\* poll loop and of the completion task interleave.
C39_ChunkIndexNeverDecreases ==
    [][(\A s \in Sessions : tasks'[StartTask(s)] = tasks[StartTask(s)])
          => streaming'.last_chunk_index >= streaming.last_chunk_index]_vars

(***************************************************************************)
(* SpecAudio: AudioState.send_command (commands/audio.rs) called by        *)
(* several threads, and the capture thread that serves the commands        *)
(***************************************************************************)

\* the threads that call send_command: the hotkey handler, the chunk-poll loop
AudioCallers == {"handler", "poll"}

\* calls of one thread
MaxCalls == 2

\* recv_timeout(Duration::from_secs(5)), in steps of the clock
RecvTimeoutSteps == 2

\* the AudioCommand values the callers send here
AudioCommands == {"Start", "GetChunks"}

\* the AudioResponse variants the capture thread sends for a command
ResponsesOf(kind) ==
    CASE kind = "Start"     -> {"Ok", "Error"}
      [] kind = "GetChunks" -> {"Chunks"}

\* cmd: the command of the current or last call, <<>> or [id, kind];
\* reply: the AudioResponse the last call returned, <<>> or [to, type]
AudioIdle ==
    [pc |-> "idle", cmd |-> <<>>, waited |-> 0, calls |-> 0, result |-> "none", reply |-> <<>>]

InitAudio ==
    /\ audio_state = NewAudioState
    /\ callers = [t \in AudioCallers |-> AudioIdle]
    /\ emitted = <<>>
    /\ unit = NoUnit
    /\ now = 0
    /\ streaming = NewStreamingService(0)
    /\ key_down = FALSE
    /\ hk = [pc |-> "idle", session |-> 0, buffer_len |-> 0]
    /\ is_hotkey_recording = FALSE
    /\ recording_start_time = 0
    /\ is_streaming_active = FALSE
    /\ settings = [streaming_enabled |-> TRUE, streaming_mode |-> "Speed", model_id |-> "base"]
    /\ capture = NoCapture
    /\ tasks = [t \in TaskIds |-> NoTaskState]
    /\ sess = [s \in Sessions |-> NoSession]
    /\ submitted = [s \in Sessions |-> <<>>]
    /\ last_completion_ms = <<>>
    /\ press_gap = <<>>
    /\ EngineIdle
    /\ input_ratio = 1
    /\ ring = EmptyRing(0)
    /\ produced = <<>>
    /\ fed = 0

\* what SpecAudio leaves alone
audioFrame ==
    <<now, streaming, emitted, ring, hk, key_down, is_hotkey_recording, recording_start_time,
      is_streaming_active, settings, capture, tasks, historyVars, input_ratio, produced, fed,
      engineVars, unit>>

\* a call of start_level_emitter, which sends no command
StartLevelEmitter == "start_level_emitter"

\* a thread calls send_command(cmd) or start_level_emitter; the id (caller, call)
\* tells the replies apart
AudioCall(t) ==
    /\ callers[t].pc = "idle"
    /\ callers[t].calls < MaxCalls
    /\ \E kind \in AudioCommands \cup {StartLevelEmitter} :
          callers' = [callers EXCEPT ![t] = [pc |-> "ensure", waited |-> 0, result |-> "none",
                                            reply |-> <<>>,
                                            calls |-> @.calls + 1,
                                            cmd |-> [id |-> <<t, callers[t].calls + 1>>,
                                                     kind |-> kind]]]
    /\ UNCHANGED <<audio_state, audioFrame>>

\* ensure_initialized returned Ok: send_command goes on to its locks,
\* start_level_emitter spawns its emitter thread and returns
EnsureReturned(t) ==
    IF callers[t].cmd.kind = StartLevelEmitter THEN "idle" ELSE "lock_cmd_tx"

\* ensure_initialized without the second test of the flag
initialized_unchecked(a) == FALSE

\* ensure_initialized: the test of the flag repeated with the locks held
initialized_locked(a) == a.initialized

\* ensure_initialized: the unlocked test of the flag; then the locks in the order
\* cmd_tx, resp_rx (thread_handle is taken by no one else), the second test,
\* the spawn of the capture thread with its two new channels, and the release of
\* the guards on return
EnsureInitialized(t) ==
    \/ /\ callers[t].pc = "ensure"
       /\ callers' = [callers EXCEPT ![t].pc =
                          IF audio_state.initialized THEN EnsureReturned(t) ELSE "init_cmd_tx"]
       /\ UNCHANGED <<audio_state, audioFrame>>
    \/ /\ callers[t].pc = "init_cmd_tx"
       /\ audio_state.cmd_tx = Unlocked
       /\ audio_state' = [audio_state EXCEPT !.cmd_tx = t]
       /\ callers' = [callers EXCEPT ![t].pc = "init_resp_rx"]
       /\ UNCHANGED audioFrame
    \/ /\ callers[t].pc = "init_resp_rx"
       /\ audio_state.resp_rx = Unlocked
       /\ audio_state' = [audio_state EXCEPT !.resp_rx = t]
       /\ callers' = [callers EXCEPT ![t].pc = "init_spawn"]
       /\ UNCHANGED audioFrame
    \/ /\ callers[t].pc = "init_spawn"
       /\ audio_state' = IF initialized_locked(audio_state)
                         THEN [audio_state EXCEPT !.cmd_tx = Unlocked, !.resp_rx = Unlocked]
                         ELSE [audio_state EXCEPT
                                   !.cmd_tx = Unlocked, !.resp_rx = Unlocked,
                                   !.initialized = TRUE,
                                   !.cmd_chan = <<>>, !.resp_chan = <<>>,
                                   !.worker = "waiting",
                                   !.spawned = @ + 1]
       /\ callers' = [callers EXCEPT ![t].pc = EnsureReturned(t)]
       /\ UNCHANGED audioFrame

\* rx.recv(): waits for a reply without a bound
recv_blocking(chan, waited) ==
    IF chan # <<>> THEN "Ok" ELSE "Wait"

\* rx.recv_timeout(5 s) on the reply channel after waiting for `waited` steps
recv_timeout(chan, waited) ==
    IF chan # <<>> THEN "Ok"
    ELSE IF waited >= RecvTimeoutSteps THEN "Timeout"
    ELSE "Wait"

\* send_command after ensure_initialized: the guards of cmd_tx and resp_rx, the send,
\* the bounded wait for the reply; both guards are dropped on return
SendCommand(t) ==
    \/ /\ callers[t].pc = "lock_cmd_tx"
       /\ audio_state.cmd_tx = Unlocked
       /\ audio_state' = [audio_state EXCEPT !.cmd_tx = t]
       /\ callers' = [callers EXCEPT ![t].pc = "lock_resp_rx"]
       /\ UNCHANGED audioFrame
    \/ /\ callers[t].pc = "lock_resp_rx"
       /\ audio_state.resp_rx = Unlocked
       /\ audio_state' = [audio_state EXCEPT !.resp_rx = t]
       /\ callers' = [callers EXCEPT ![t].pc = "send"]
       /\ UNCHANGED audioFrame
    \/ /\ callers[t].pc = "send"
       /\ audio_state' = [audio_state EXCEPT !.cmd_chan = Append(@, callers[t].cmd)]
       /\ callers' = [callers EXCEPT ![t].pc = "recv"]
       /\ UNCHANGED audioFrame
    \/ /\ callers[t].pc = "recv"
       /\ LET r == recv_timeout(audio_state.resp_chan, callers[t].waited)
          IN IF r = "Wait"
             THEN /\ callers' = [callers EXCEPT ![t].waited = Min(@ + 1, RecvTimeoutSteps)]
                  /\ UNCHANGED audio_state
             ELSE /\ callers' = [callers EXCEPT
                                     ![t].pc = "idle", ![t].result = r,
                                     ![t].reply = IF r = "Ok" THEN <<Head(audio_state.resp_chan)>>
                                                  ELSE <<>>]
                  /\ audio_state' = [audio_state EXCEPT
                                         !.cmd_tx = Unlocked, !.resp_rx = Unlocked,
                                         !.resp_chan = IF r = "Ok" THEN Tail(@) ELSE @]
       /\ UNCHANGED audioFrame

\* the capture thread: takes a command off the channel, handles it and sends its
\* reply; a handler that hangs (a device call that never returns) sends none
CaptureThread ==
    \/ /\ audio_state.worker = "waiting"
       /\ audio_state.cmd_chan # <<>>
       /\ audio_state' = [audio_state EXCEPT !.worker = "handling"]
       /\ UNCHANGED <<callers, audioFrame>>
    \/ /\ audio_state.worker = "handling"
       /\ \E type \in ResponsesOf(Head(audio_state.cmd_chan).kind) :
             audio_state' = [audio_state EXCEPT
                                !.worker = "waiting",
                                !.cmd_chan = Tail(@),
                                !.resp_chan = Append(@, [to |-> Head(audio_state.cmd_chan).id,
                                                         type |-> type])]
       /\ UNCHANGED <<callers, audioFrame>>
    \/ /\ audio_state.worker = "handling"
       /\ audio_state' = [audio_state EXCEPT !.worker = "stuck"]
       /\ UNCHANGED <<callers, audioFrame>>

NextAudio ==
    \/ \E t \in AudioCallers : AudioCall(t)
    \/ \E t \in AudioCallers : EnsureInitialized(t)
    \/ \E t \in AudioCallers : SendCommand(t)
    \/ CaptureThread

\* every calling thread keeps running and its timer keeps counting; nothing is
\* assumed of the capture thread
SpecAudio ==
    /\ InitAudio
    /\ [][NextAudio]_vars
    /\ \A t \in AudioCallers : WF_vars(EnsureInitialized(t) \/ SendCommand(t))

\* C20: every send_command call returns, with a reply or with the timeout error,
\* whatever the capture thread does.
C20_SendCommandReturns ==
    /\ [](\A t \in AudioCallers : callers[t].result \in {"none", "Ok", "Timeout"})
    /\ \A t \in AudioCallers : (callers[t].pc # "idle") ~> (callers[t].pc = "idle")

\* C21: every reply send_command(c) returns is the capture thread's reply to c,
\* of a type that belongs to c, also for a command that follows a timed-out one.
C21_ReplyBelongsToCommand ==
    \A t \in AudioCallers :
        callers[t].result = "Ok" =>
            /\ callers[t].reply[1].to = callers[t].cmd.id
            /\ callers[t].reply[1].type \in ResponsesOf(callers[t].cmd.kind)

\* C36: however the calls of send_command and start_level_emitter interleave on
\* a fresh AudioState, one capture thread is spawned and no more: none before
\* the first ensure_initialized returns, exactly one from then on, and every
\* command in the channel is in the channel of that thread.
C36_OneCaptureThread ==
    /\ audio_state.spawned <= 1
    /\ audio_state.spawned = (IF audio_state.initialized THEN 1 ELSE 0)
    /\ \A t \in AudioCallers :
          (callers[t].calls > 0 /\ callers[t].pc \notin {"ensure", "init_cmd_tx", "init_resp_rx", "init_spawn"})
              => audio_state.spawned = 1
    /\ audio_state.cmd_chan # <<>> => audio_state.worker # "none"

\* both threads found the flag unset in their first call and went for the locks:
\* send_command spawned the thread, start_level_emitter got the locks next and
\* holds them with the flag set
C36_Witness ==
    /\ callers["poll"].pc = "init_spawn"
    /\ callers["poll"].calls = 1
    /\ callers["poll"].cmd.kind = StartLevelEmitter
    /\ audio_state.initialized
    /\ callers["handler"].calls = 1
    /\ callers["handler"].pc = "lock_cmd_tx"

\* a call returned the timeout error while the capture thread hangs, and the
\* other thread then got the locks
C20_Witness ==
    /\ audio_state.worker = "stuck"
    /\ callers["handler"].pc = "idle"
    /\ callers["handler"].result = "Timeout"
    /\ callers["poll"].pc = "recv"

\* the partial events (rate-limited and forced) emitted in the second that
\* starts with event i
InWindow(i) ==
    {j \in 1..Len(emitted) :
        /\ emitted[j].event \in {"partial", "forced"}
        /\ emitted[i].at <= emitted[j].at
        /\ emitted[j].at < emitted[i].at + 1000}

\* C11: no 1-second window holds more than 3 partial events, forced ones
\* included.
C11_ThreePartialsPerSecond ==
    \A i \in 1..Len(emitted) :
        emitted[i].event \in {"partial", "forced"} => Cardinality(InWindow(i)) <= 3

\* C13: chunks_processed <= next_expected_chunk_index (last_chunk_index) in
\* every state of the service, the states inside start() and between
\* concurrent process_chunk calls included.
C13_ProcessedAtMostNextIndex ==
    streaming.chunks_processed <= streaming.last_chunk_index

\* the claim's text for Balanced mode on more than 5 s of audio: with a and t
\* the word counts of the accumulated and the tail text, the tail text alone when
\* a <= t, else the first max(0, a - t - 2) accumulated words, then the tail text
BalancedFinalText(accumulated, tail) ==
    LET a == Len(accumulated)
        t == Len(tail)
    IN IF a <= t THEN tail
       ELSE [k \in 1..(Max(0, a - t - 2) + t) |->
                IF k <= Max(0, a - t - 2) THEN accumulated[k]
                ELSE tail[k - Max(0, a - t - 2)]]

C26_RejectedChunkChangesNothing ==
    [][(/\ ring'.chunk_counter = ring.chunk_counter + 1
        /\ (~streaming.is_active \/ ring.chunk_counter < streaming.last_chunk_index))
       => /\ \A t \in ServiceTasks : callers'[t].pc = "engine" => callers[t].pc = "engine"
          /\ \E t \in {"poll", "completion"} :
                callers'[t].rejected /\ callers'[t].pc \in {"idle", "force"}
          /\ emitted' = emitted
          /\ streaming' = streaming]_vars

\* the poll loop's last chunk was refused as already processed: the service is
\* active and a task of the session before stored a later last_chunk_index
C26_Witness ==
    /\ callers["poll"].rejected
    /\ streaming.is_active
    /\ ring.chunk_counter >= 1
    /\ ring.chunk_counter <= streaming.last_chunk_index

\* C27: when a process_chunk(chunk) call returns Ok, last_chunk_index is
\* chunk.chunk_index + 1, the accumulated text is the one before with the chunk's
\* text appended, and the context is the accumulated text if that is not empty
\* and absent otherwise; the call has added exactly 1 to chunks_processed.
C27_StateAfterProcessChunk ==
    [][\A t \in {"poll", "completion"} :
          /\ (callers[t].pc = "engine" /\ callers'[t].pc = "update")
                => streaming'.chunks_processed = streaming.chunks_processed + 1
          /\ (callers[t].pc = "update" /\ callers'[t].pc # "update")
                => /\ streaming'.last_chunk_index = callers[t].chunk[1].chunk_index + 1
                   /\ streaming'.accumulated_text =
                         streaming.accumulated_text \o callers[t].text
                   /\ streaming'.last_context =
                         IF streaming'.accumulated_text # <<>>
                         THEN <<streaming'.accumulated_text>> ELSE <<>>]_vars

\* the rate-limited partial events of a log of events, in order
PartialEvents(log) == SelectSeq(log, LAMBDA e : e.event = "partial")

\* C28: maybe_emit_partial emits only when MIN_EMIT_INTERVAL_MS have passed since
\* its last emission: a partial event that follows another one emitted since
\* start() is at least MIN_EMIT_INTERVAL_MS later. A call that emits nothing has
\* still appended its text and set the context, and the first call to return
\* after start() reset last_emit_time always emits.
C28_RateLimitedEmission ==
    [][\A t \in {"poll", "completion"} :
          (callers[t].pc = "update" /\ callers'[t].pc # "update")
          => LET before == PartialEvents(emitted)
                 after  == PartialEvents(emitted')
             IN /\ emitted' # emitted
                     => /\ emitted' = Append(emitted, after[Len(after)])
                        /\ after[Len(after)].at = now
                        /\ callers["start"].limited
                             => now - before[Len(before)].at >= MIN_EMIT_INTERVAL_MS
                /\ emitted' = emitted
                     => /\ callers["start"].limited
                        /\ now - before[Len(before)].at < MIN_EMIT_INTERVAL_MS
                        /\ streaming'.accumulated_text =
                              streaming.accumulated_text \o callers[t].text
                        /\ streaming'.last_context = <<streaming'.accumulated_text>>]_vars

\* one session in which three chunks were processed and two partial events
\* emitted, MIN_EMIT_INTERVAL_MS or more apart: one emission was skipped
C28_Witness ==
    /\ hk.session = 1
    /\ streaming.chunks_processed = 3
    /\ Len(streaming.accumulated_text) = 3
    /\ \A t \in ServiceTasks : callers[t].pc \notin {"engine", "update"}
    /\ Len(PartialEvents(emitted)) = 2
    /\ PartialEvents(emitted)[2].at - PartialEvents(emitted)[1].at >= MIN_EMIT_INTERVAL_MS

\* C25: while streaming is disabled the samples a callback delivers still enter
\* the ring (its full buffer, or its pending samples on their way there), and
\* no chunk is placed in the ready queue.
C25_DisabledStreamingFillsFullBuffer ==
    [][(fed' > fed /\ ~capture.streaming_enabled) =>
          /\ Len(ring'.full_buffer) + Len(ring'.pending_samples)
               = Len(ring.full_buffer) + Len(ring.pending_samples) + (fed' - fed)
          /\ ring'.chunks = ring.chunks]_vars

(***************************************************************************)
(* SpecSettings: what one push-to-talk session reads from SettingsState    *)
(* (hotkey/mod.rs, storage/settings.rs) while update_setting commands run  *)
(***************************************************************************)

\* update_setting commands in a run
MaxUpdates == 2

SessionTasks == {"handler", "poll", "completion"}

\* the values of SettingsState the session cares about
SettingsValues ==
    [streaming_mode : {"Speed", "Accuracy"}, model_id : ModelIds, use_context_prompt : BOOLEAN]

\* the RwLock<Settings>: its content, whether a writer holds it, the updates so far
SettingsOf(v, writer, updates) ==
    [streaming_enabled |-> TRUE, streaming_mode |-> v.streaming_mode, model_id |-> v.model_id,
     use_context_prompt |-> v.use_context_prompt, writer |-> writer, updates |-> updates]

ValuesOf(st) ==
    [streaming_mode |-> st.streaming_mode, model_id |-> st.model_id,
     use_context_prompt |-> st.use_context_prompt]

\* get_model_id_sync: try_read, "base" when the lock is not available
get_model_id_sync(st) == IF st.writer THEN "base" ELSE st.model_id

\* the locals of a task: what it read, <<>> before; at_press is the history of
\* what SettingsState held when the key was pressed; chunks counts the
\* per-chunk submissions, reconciled tells that reconcile was called
NoLocals ==
    [pc |-> "none", streaming_mode |-> <<>>, model_id |-> <<>>, use_context_prompt |-> <<>>,
     at_press |-> <<>>, chunks |-> 0, reconciled |-> FALSE]

InitSettings ==
    /\ settings \in {SettingsOf(v, FALSE, 0) : v \in SettingsValues}
    /\ callers = [t \in SessionTasks |-> NoLocals]
    /\ UnitsIdle
    /\ input_ratio = 1
    /\ ring = EmptyRing(0)
    /\ produced = <<>>
    /\ fed = 0
    /\ EngineIdle
    /\ now = 0
    /\ key_down = FALSE
    /\ hk = [pc |-> "idle", session |-> 0, buffer_len |-> 0]
    /\ is_hotkey_recording = FALSE
    /\ recording_start_time = 0
    /\ is_streaming_active = FALSE
    /\ capture = NoCapture
    /\ streaming = NewStreamingService(0)
    /\ tasks = [t \in TaskIds |-> NoTaskState]
    /\ sess = [s \in Sessions |-> NoSession]
    /\ submitted = [s \in Sessions |-> <<>>]
    /\ last_completion_ms = <<>>
    /\ press_gap = <<>>

settingsFrame ==
    <<ringVars, engineVars, now, key_down, hk, is_hotkey_recording, recording_start_time,
      is_streaming_active, capture, streaming, tasks, historyVars, unitVars>>

\* update_setting -> SettingsState::update_field: the write lock is taken and the
\* field changed; save_settings writes the file; the guard is dropped on return
UpdateField ==
    \/ /\ ~settings.writer
       /\ settings.updates < MaxUpdates
       /\ \E v \in SettingsValues :
             /\ v # ValuesOf(settings)
             /\ settings' = SettingsOf(v, TRUE, settings.updates + 1)
       /\ UNCHANGED <<callers, settingsFrame>>
    \/ /\ settings.writer
       /\ settings' = [settings EXCEPT !.writer = FALSE]
       /\ UNCHANGED <<callers, settingsFrame>>

\* ShortcutState::Pressed: the handler reads streaming_enabled and streaming_mode,
\* passes the mode to service.start and spawns process_streaming_chunks
SessionPressed ==
    /\ callers["handler"].pc = "none"
    /\ ~settings.writer
    /\ callers' = [callers EXCEPT
                      !["handler"] = [NoLocals EXCEPT !.pc = "recording",
                                                      !.streaming_mode = <<settings.streaming_mode>>,
                                                      !.at_press = <<ValuesOf(settings)>>],
                      !["poll"].pc = "spawned"]
    /\ UNCHANGED <<settings, settingsFrame>>

\* process_streaming_chunks: model_id is read once, when the task starts to run;
\* every process_chunk call of the loop is given that value
SessionPoll ==
    \/ /\ callers["poll"].pc = "spawned"
       /\ callers' = [callers EXCEPT !["poll"].pc = "polling",
                                     !["poll"].model_id = <<get_model_id_sync(settings)>>]
       /\ UNCHANGED <<settings, settingsFrame>>
    \/ /\ callers["poll"].pc = "polling"
       /\ callers["handler"].pc = "recording"
       /\ callers["poll"].chunks < MaxChunkIndex
       /\ callers' = [callers EXCEPT !["poll"].chunks = @ + 1]
       /\ UNCHANGED <<settings, settingsFrame>>

\* ShortcutState::Released -> handle_streaming_completion: model_id is read with
\* get_model_id_sync, then the prompt settings with settings_state.get().await
\* (which waits for a writer), then the completion task is spawned
SessionReleased ==
    \/ /\ callers["handler"].pc = "recording"
       /\ callers' = [callers EXCEPT !["handler"].pc = "released",
                                     !["handler"].model_id = <<get_model_id_sync(settings)>>]
       /\ UNCHANGED <<settings, settingsFrame>>
    \/ /\ callers["handler"].pc = "released"
       /\ ~settings.writer
       /\ callers' = [callers EXCEPT
                         !["handler"].pc = "done",
                         !["completion"] = [NoLocals EXCEPT
                                               !.pc = "spawned",
                                               !.model_id = callers["handler"].model_id,
                                               !.use_context_prompt = <<settings.use_context_prompt>>]]
       /\ UNCHANGED <<settings, settingsFrame>>

\* the completion task: process_chunk for the flushed chunk, then reconcile, with
\* the model_id and the initial prompt it was given
SessionCompletion ==
    /\ callers["completion"].pc = "spawned"
    /\ \E flushed \in BOOLEAN :
          callers' = [callers EXCEPT !["completion"].pc = "done",
                                    !["completion"].chunks = IF flushed THEN 1 ELSE 0,
                                    !["completion"].reconciled = TRUE]
    /\ UNCHANGED <<settings, settingsFrame>>

NextSettings ==
    \/ UpdateField
    \/ SessionPressed
    \/ SessionPoll
    \/ SessionReleased
    \/ SessionCompletion

SpecSettings == InitSettings /\ [][NextSettings]_vars

\* C24: within one session the per-chunk submissions, the reconciliation, the
\* streaming mode and the prompt settings all use the values SettingsState held
\* at the session's press.
C24_SettingsSnapshot ==
    LET at_press == callers["handler"].at_press[1]
    IN /\ callers["handler"].pc # "none"
          => callers["handler"].streaming_mode = <<at_press.streaming_mode>>
       /\ callers["poll"].chunks > 0
          => callers["poll"].model_id = <<at_press.model_id>>
       /\ callers["completion"].reconciled
          => /\ callers["completion"].model_id = <<at_press.model_id>>
             /\ callers["completion"].use_context_prompt = <<at_press.use_context_prompt>>

(***************************************************************************)
(* SpecUnits: functions called on their own, once, with arguments drawn    *)
(* from small sets. A String is the sequence of its characters; an Option  *)
(* is <<>> (None) or <<x>> (Some(x)).                                      *)
(***************************************************************************)

\* terms of the custom vocabulary
MaxVocabulary == 2

\* samples one callback delivers, channels of the input device
MaxData == 4

MaxChannels == 3

\* [String].join(sep)
RECURSIVE join(_, _)
join(parts, sep) ==
    IF parts = <<>> THEN <<>>
    ELSE IF Len(parts) = 1 THEN parts[1]
    ELSE parts[1] \o sep \o join(Tail(parts), sep)

\* mutant of build_initial_prompt: the context prompt is used whatever the flag
build_initial_prompt_any_flag(vocabulary, context_prompt, use_context_prompt) ==
    LET vocab == IF vocabulary # <<>> THEN <<join(vocabulary, <<",", " ">>)>> ELSE <<>>
        parts == IF context_prompt # <<>> /\ context_prompt[1] # <<>>
                 THEN Append(vocab, context_prompt[1])
                 ELSE vocab
    IN IF parts = <<>> THEN <<>> ELSE <<join(parts, <<".", " ">>)>>

build_initial_prompt(vocabulary, context_prompt, use_context_prompt) ==
    LET vocab == IF vocabulary # <<>> THEN <<join(vocabulary, <<",", " ">>)>> ELSE <<>>
        parts == IF use_context_prompt /\ context_prompt # <<>> /\ context_prompt[1] # <<>>
                 THEN Append(vocab, context_prompt[1])
                 ELSE vocab
    IN IF parts = <<>> THEN <<>> ELSE <<join(parts, <<".", " ">>)>>

\* slice.chunks(n): pieces of n elements, the last one possibly shorter
RECURSIVE chunks(_, _)
chunks(data, n) ==
    IF data = <<>> THEN <<>>
    ELSE <<SubSeq(data, 1, Min(n, Len(data)))>> \o chunks(SubSeq(data, Min(n, Len(data)) + 1, Len(data)), n)

\* (chunk[0] + chunk[1]) / 2.0; the sample values of the model are multiples of 6
Mean2(chunk) == (chunk[1] + chunk[2]) \div 2

\* the mono samples the f32 input callback collects from one buffer of the device
callback_mono(data, channels) ==
    IF channels = 2
    THEN LET frames == SelectSeq(chunks(data, 2), LAMBDA chunk : Len(chunk) = 2)
         IN [i \in 1..Len(frames) |-> Mean2(frames[i])]
    ELSE data

stereo_to_mono(stereo) ==
    LET frames == chunks(stereo, 2)
    IN [i \in 1..Len(frames) |-> IF Len(frames[i]) = 2 THEN Mean2(frames[i]) ELSE frames[i][1]]

\* WhisperEngine::transcribe_chunk up to the inference: the error, the result it
\* returns for an empty or short chunk, or "run"
transcribe_chunk(e, chunk) ==
    LET pre == transcribe_chunk_pre(e, Len(chunk.samples))
    IN IF pre = "OkEmpty"
       THEN [result |-> "Ok",
             value  |-> <<[text |-> <<>>, chunk_index |-> chunk.chunk_index, is_partial |-> TRUE,
                           confidence |-> 0, timestamp_ms |-> chunk.timestamp_ms]>>]
       ELSE [result |-> pre, value |-> <<>>]

\* sequences over S of length up to n
SeqsUpTo(S, n) == UNION {[1..k -> S] : k \in 0..n}

\* chunk sizes for calculate_timestamp: ChunkConfig::default (2 s at 16 kHz) and
\* with_chunk_duration(0.1, _); chunk indexes: the first chunks, and later ones
TimestampChunkSizes == {32000, 1600}

TimestampIndexes == {0, 1, 2, 163, 134218, 134219}

\* the calls: vocabulary terms "", "a", "b"; context prompts None, Some(""), Some("c");
\* buffers of samples 0 and 6; an engine without and with a model, chunks of every
\* length class
UnitCalls ==
    {[fn |-> "build_initial_prompt", args |-> a, out |-> <<>>] :
        a \in [vocabulary : SeqsUpTo({<<>>, <<"a">>, <<"b">>}, MaxVocabulary),
               context_prompt : {<<>>, <<<<>>>>, <<<<"c">>>>},
               use_context_prompt : BOOLEAN]}
    \cup {[fn |-> "callback_mono", args |-> a, out |-> <<>>] :
            a \in [data : SeqsUpTo({0, 6}, MaxData), channels : 1..MaxChannels]}
    \cup {[fn |-> "stereo_to_mono", args |-> a, out |-> <<>>] :
            a \in [stereo : SeqsUpTo({0, 6}, MaxData)]}
    \cup {[fn |-> "transcribe_chunk", args |-> a, out |-> <<>>] :
            a \in [e : {NewEngine, load_model(NewEngine, "base", FALSE, {"base"}, "ok").engine},
                   chunk : {AudioChunk(Block(0, n), i, 100 * i, i > 0) :
                               n \in AudioLens, i \in 0..1}]}
    \cup {[fn |-> "calculate_timestamp", args |-> a, out |-> <<>>] :
            a \in [start_time_ms : StartTimes,
                   chunk_size_samples : TimestampChunkSizes,
                   chunk_index : TimestampIndexes]}

InitUnits ==
    /\ unit \in UnitCalls
    /\ emitted = <<>>
    /\ audio_state = NewAudioState
    /\ input_ratio = 1
    /\ ring = EmptyRing(0)
    /\ produced = <<>>
    /\ fed = 0
    /\ EngineIdle
    /\ callers = <<>>
    /\ SystemIdle

unitFrame == <<ringVars, engineVars, callers, sysVars, emitted, audio_state>>

UnitBuildInitialPrompt ==
    /\ unit.fn = "build_initial_prompt" /\ unit.out = <<>>
    /\ unit' = [unit EXCEPT !.out = <<build_initial_prompt(unit.args.vocabulary,
                                                          unit.args.context_prompt,
                                                          unit.args.use_context_prompt)>>]
    /\ UNCHANGED unitFrame

UnitCallbackMono ==
    /\ unit.fn = "callback_mono" /\ unit.out = <<>>
    /\ unit' = [unit EXCEPT !.out = <<callback_mono(unit.args.data, unit.args.channels)>>]
    /\ UNCHANGED unitFrame

UnitStereoToMono ==
    /\ unit.fn = "stereo_to_mono" /\ unit.out = <<>>
    /\ unit' = [unit EXCEPT !.out = <<stereo_to_mono(unit.args.stereo)>>]
    /\ UNCHANGED unitFrame

UnitTranscribeChunk ==
    /\ unit.fn = "transcribe_chunk" /\ unit.out = <<>>
    /\ unit' = [unit EXCEPT !.out = <<transcribe_chunk(unit.args.e, unit.args.chunk)>>]
    /\ UNCHANGED unitFrame

UnitCalculateTimestamp ==
    /\ unit.fn = "calculate_timestamp" /\ unit.out = <<>>
    /\ unit' = [unit EXCEPT !.out = <<calculate_timestamp(unit.args.start_time_ms,
                                                         unit.args.chunk_size_samples,
                                                         unit.args.chunk_index)>>]
    /\ UNCHANGED unitFrame

NextUnits ==
    \/ UnitCalculateTimestamp
    \/ UnitBuildInitialPrompt
    \/ UnitCallbackMono
    \/ UnitStereoToMono
    \/ UnitTranscribeChunk

SpecUnits == InitUnits /\ [][NextUnits]_vars

\* the context prompt takes part: enabled, given and not empty
ContextUsed(a) ==
    a.use_context_prompt /\ a.context_prompt # <<>> /\ a.context_prompt[1] # <<>>

\* C22: build_initial_prompt(V, C, use) is None exactly when V is empty and the
\* context is unused; V alone gives V.join(", "), the context alone gives C, both
\* give V.join(", ") + ". " + C.
C22_BuildInitialPrompt ==
    (unit.fn = "build_initial_prompt" /\ unit.out # <<>>) =>
        LET a   == unit.args
            V   == a.vocabulary
            out == unit.out[1]
        IN /\ (out = <<>>) <=> (V = <<>> /\ ~ContextUsed(a))
           /\ (V # <<>> /\ ~ContextUsed(a)) => out = <<join(V, <<",", " ">>)>>
           /\ (V = <<>> /\ ContextUsed(a)) => out = <<a.context_prompt[1]>>
           /\ (V # <<>> /\ ContextUsed(a))
                 => out = <<join(V, <<",", " ">>) \o <<".", " ">> \o a.context_prompt[1]>>

\* two terms and a context prompt gave "a, b. c"
C22_Witness ==
    /\ unit.fn = "build_initial_prompt"
    /\ unit.args.vocabulary = << <<"a">>, <<"b">> >>
    /\ unit.args.use_context_prompt
    /\ unit.out = << << <<"a", ",", " ", "b", ".", " ", "c">> >> >>

RECURSIVE SumSeq(_)
SumSeq(xs) == IF xs = <<>> THEN 0 ELSE Head(xs) + SumSeq(Tail(xs))

\* the claim's downmix: the identity for one channel, else the mean of every
\* complete frame
Downmix(data, C) ==
    IF C = 1 THEN data
    ELSE [i \in 1..(Len(data) \div C) |-> SumSeq(SubSeq(data, (i - 1) * C + 1, i * C)) \div C]

\* C23: the capture callback and stereo_to_mono return the downmix of their
\* input, for every channel count: floor(len / C) samples, each the mean of a
\* complete frame, an incomplete trailing frame discarded.
C23_DownmixPerFrame ==
    unit.out # <<>> =>
        /\ unit.fn = "callback_mono" => unit.out[1] = Downmix(unit.args.data, unit.args.channels)
        /\ unit.fn = "stereo_to_mono" => unit.out[1] = Downmix(unit.args.stereo, 2)

C32_TimestampFromIndex ==
    (unit.fn = "calculate_timestamp" /\ unit.out # <<>>) =>
        unit.out[1] = unit.args.start_time_ms
                        + unit.args.chunk_index
                            * ((unit.args.chunk_size_samples * 1000) \div WHISPER_SAMPLE_RATE)

====
